---- MODULE Spec2Model ----
(***************************************************************************)
(* A model of the maimai chart notation engine of MaidataStatistic:        *)
(*   effect/delete.py         the rewrite engine (process_beat,            *)
(*                            process_notes_part, process_line,            *)
(*                            chart_delete),                               *)
(*   effect/random_delete.py  the older copy of the rewrite engine,        *)
(*   example/Credits.py       the copy that decorates every kept beat,     *)
(*   effect/pattern.py        the analysis path (_get_root, extract_roots, *)
(*                            split_blocks, process_chart, sliding_window, *)
(*                            check_target_pattern, check_song_structure), *)
(*   parser.py                the chart file parser (_parse_metadata,      *)
(*                            _build_charts, get_chart_by_level),          *)
(*   searcher.py              the scanner (scan, _process_file,            *)
(*                            get_matched_results).                        *)
(*                                                                         *)
(* A Python str is a sequence of one-character strings; None is the        *)
(* one-element sequence <<"None">>, which no str can equal.  Every         *)
(* function of the code is an operator computed the way the code computes  *)
(* it; every component has a specification that takes an input (built one  *)
(* character, slot or chart per step, or drawn from a bounded set) and     *)
(* then applies the operation to it.  Probabilities are in tenths, the     *)
(* values of random.gauss in thousandths.                                  *)
(***************************************************************************)
EXTENDS Integers, Sequences, FiniteSets, TLC

VARIABLES
    pc,               \* position of the running component
    line,             \* rewrite: the note-data line (or beat) given
    note_processor,   \* rewrite: the per-note callable given
    out_line,         \* rewrite: the text returned
    calls,            \* rewrite: the arguments note_processor was called with
    note,             \* classifier: the note token given to _get_root
    root,             \* classifier: what _get_root returned
    note_data,        \* analysis: the chart's list of note-data lines
    temporal_roots,   \* analysis / matcher: the list of TimeSlots
    target_pattern,   \* matcher: the target sequence of roots
    found,            \* matcher: what check_target_pattern returned
    song,             \* scan: the list of chart dictionaries
    condition_func,   \* scan: the predicate given
    condition_calls,  \* scan: the arguments condition_func was called with
    satisfies_number, \* scan: the list check_song_structure returned
    chart_lines,      \* deletion: the list of lines given
    alpha,            \* deletion: the deletion probability given, in tenths
    draws,            \* deletion: what random.random() returned, in order, in tenths
    out_lines,        \* deletion: the list returned
    consumed,         \* deletion: number of random.random() calls made
    kept,             \* decoration: kept_notes of the running process_beat
    hs_x,             \* decoration: x of generate_hs_string, in thousandths
    file_lines,       \* parser: the lines of the file the loop has taken so far
    metadata,         \* parser: self.data['metadata']
    current_inote_key, \* parser: the key of the open inote block, or None
    inote_buffer,     \* parser: the lines of the open inote block
    charts,           \* parser: self.data['charts']
    chart_num,        \* parser: the argument of get_chart_by_level
    chart_found,      \* parser: what get_chart_by_level returned
    history,          \* scanner: what happened to every file processed so far
    call_start,       \* scanner: the length of history when scan() was called
    todo,             \* scanner: number of files scan() has still to process
    success_count,    \* scanner: success_count of scan()
    match_results,    \* scanner: self.match_results
    scan_result       \* scanner: what scan() returned

vars == <<pc, line, note_processor, out_line, calls, note, root, note_data,
          temporal_roots, target_pattern, found, song, condition_func,
          condition_calls, satisfies_number, chart_lines, alpha, draws,
          out_lines, consumed, kept, hs_x, file_lines, metadata,
          current_inote_key, inote_buffer, charts, chart_num, chart_found,
          history, call_start, todo, success_count, match_results,
          scan_result>>

rewriteVars == <<line, note_processor, out_line, calls>>
classifyVars == <<note, root>>
chartVars == <<note_data>>
matchVars == <<temporal_roots, target_pattern, found>>
songVars == <<song, condition_func, condition_calls, satisfies_number>>
deleteVars == <<chart_lines, alpha, draws, out_lines, consumed>>
creditsVars == <<kept, hs_x>>
parserVars == <<file_lines, metadata, current_inote_key, inote_buffer, charts,
                chart_num, chart_found>>
scannerVars == <<history, call_start, todo, success_count, match_results,
                 scan_result>>

(***************************************************************************)
(* Bounds of the model.                                                    *)
(***************************************************************************)
\* longest line given to the rewrite engine
MaxLineLen == 4
\* longest note token given to the classifier
MaxNoteLen == 3
\* most characters in one chart's note data, over all its lines
MaxDataLen == 4
\* most lines in one chart's note data
MaxLines == 2
\* most TimeSlots given to the matcher
MaxSlots == 5
\* longest target pattern
MaxTarget == 4
\* most charts in a song
MaxCharts == 3
\* largest chart number
MaxChartNumber == 3
\* most items (whole header tokens or single characters) of a line with headers
MaxItems == 4
\* size of the largest list given to chart_delete or random_delete: its lines
\* plus their items (an item is a header token or a single character)
MaxDeleteSize == 4
\* longest beat given to the decorating process_beat
MaxBeatLen == 3
\* most lines of a file given to the parser
MaxFileLines == 4
\* largest argument given to get_chart_by_level
MaxChartNum == 3
\* most files one scanner processes over all its scans
MaxProcessed == 4

(***************************************************************************)
(* Python values.                                                          *)
(***************************************************************************)
None == <<"None">>

\* str.isspace(): what str.strip() takes off and \s matches.  A character
\* beyond ASCII is written by its code point, "U+3000", and literally as well
\* where the text of a module can hold it.
Whitespace == {
    "\t", "\n", "", "\f", "\r", "", "", "", "", " ", "", "U+0085", " ",
    "U+00A0", " ", "U+1680", "U+2000", "U+2001", "U+2002", "U+2003", "U+2004",
    "U+2005", "U+2006", "U+2007", "U+2008", "U+2009", "U+200A", "U+2028",
    "U+2029", "U+202F", "U+205F", "U+3000"}

\* str.isdecimal(): the characters \d matches and int() reads, by the value
\* int() gives them; DecimalDigits[d + 1] holds the digits of value d
DecimalDigits == <<
    {
        "0", "U+0660", "۰", "U+06F0", "߀", "U+07C0", "U+0966", "০", "U+09E6",
        "U+0A66", "૦", "U+0AE6", "U+0B66", "௦", "U+0BE6", "U+0C66", "೦",
        "U+0CE6", "U+0D66", "෦", "U+0DE6", "U+0E50", "໐", "U+0ED0", "U+0F20",
        "U+1040", "႐", "U+1090", "០", "U+17E0", "U+1810", "U+1946", "᧐",
        "U+19D0", "᪀", "U+1A80", "᪐", "U+1A90", "U+1B50", "᮰", "U+1BB0",
        "U+1C40", "U+1C50", "U+A620", "꣐", "U+A8D0", "U+A900", "꧐", "U+A9D0",
        "꧰", "U+A9F0", "U+AA50", "꯰", "U+ABF0", "U+FF10", "U+104A0",
        "U+10D30", "U+11066", "U+110F0", "U+11136", "U+111D0", "U+112F0",
        "U+11450", "U+114D0", "U+11650", "U+116C0", "U+11730", "U+118E0",
        "U+11950", "U+11C50", "U+11D50", "U+11DA0", "U+16A60", "U+16AC0",
        "U+16B50", "U+1D7CE", "U+1D7D8", "U+1D7E2", "U+1D7EC", "U+1D7F6",
        "U+1E140", "U+1E2F0", "U+1E950", "U+1FBF0"},
    {
        "1", "U+0661", "۱", "U+06F1", "߁", "U+07C1", "U+0967", "১", "U+09E7",
        "U+0A67", "૧", "U+0AE7", "U+0B67", "௧", "U+0BE7", "U+0C67", "೧",
        "U+0CE7", "U+0D67", "෧", "U+0DE7", "U+0E51", "໑", "U+0ED1", "U+0F21",
        "U+1041", "႑", "U+1091", "១", "U+17E1", "U+1811", "U+1947", "᧑",
        "U+19D1", "᪁", "U+1A81", "᪑", "U+1A91", "U+1B51", "᮱", "U+1BB1",
        "U+1C41", "U+1C51", "U+A621", "꣑", "U+A8D1", "U+A901", "꧑", "U+A9D1",
        "꧱", "U+A9F1", "U+AA51", "꯱", "U+ABF1", "U+FF11", "U+104A1",
        "U+10D31", "U+11067", "U+110F1", "U+11137", "U+111D1", "U+112F1",
        "U+11451", "U+114D1", "U+11651", "U+116C1", "U+11731", "U+118E1",
        "U+11951", "U+11C51", "U+11D51", "U+11DA1", "U+16A61", "U+16AC1",
        "U+16B51", "U+1D7CF", "U+1D7D9", "U+1D7E3", "U+1D7ED", "U+1D7F7",
        "U+1E141", "U+1E2F1", "U+1E951", "U+1FBF1"},
    {
        "2", "U+0662", "۲", "U+06F2", "߂", "U+07C2", "U+0968", "২", "U+09E8",
        "U+0A68", "૨", "U+0AE8", "U+0B68", "௨", "U+0BE8", "U+0C68", "೨",
        "U+0CE8", "U+0D68", "෨", "U+0DE8", "U+0E52", "໒", "U+0ED2", "U+0F22",
        "U+1042", "႒", "U+1092", "២", "U+17E2", "U+1812", "U+1948", "᧒",
        "U+19D2", "᪂", "U+1A82", "᪒", "U+1A92", "U+1B52", "᮲", "U+1BB2",
        "U+1C42", "U+1C52", "U+A622", "꣒", "U+A8D2", "U+A902", "꧒", "U+A9D2",
        "꧲", "U+A9F2", "U+AA52", "꯲", "U+ABF2", "U+FF12", "U+104A2",
        "U+10D32", "U+11068", "U+110F2", "U+11138", "U+111D2", "U+112F2",
        "U+11452", "U+114D2", "U+11652", "U+116C2", "U+11732", "U+118E2",
        "U+11952", "U+11C52", "U+11D52", "U+11DA2", "U+16A62", "U+16AC2",
        "U+16B52", "U+1D7D0", "U+1D7DA", "U+1D7E4", "U+1D7EE", "U+1D7F8",
        "U+1E142", "U+1E2F2", "U+1E952", "U+1FBF2"},
    {
        "3", "U+0663", "۳", "U+06F3", "߃", "U+07C3", "U+0969", "৩", "U+09E9",
        "U+0A69", "૩", "U+0AE9", "U+0B69", "௩", "U+0BE9", "U+0C69", "೩",
        "U+0CE9", "U+0D69", "෩", "U+0DE9", "U+0E53", "໓", "U+0ED3", "U+0F23",
        "U+1043", "႓", "U+1093", "៣", "U+17E3", "U+1813", "U+1949", "᧓",
        "U+19D3", "᪃", "U+1A83", "᪓", "U+1A93", "U+1B53", "᮳", "U+1BB3",
        "U+1C43", "U+1C53", "U+A623", "꣓", "U+A8D3", "U+A903", "꧓", "U+A9D3",
        "꧳", "U+A9F3", "U+AA53", "꯳", "U+ABF3", "U+FF13", "U+104A3",
        "U+10D33", "U+11069", "U+110F3", "U+11139", "U+111D3", "U+112F3",
        "U+11453", "U+114D3", "U+11653", "U+116C3", "U+11733", "U+118E3",
        "U+11953", "U+11C53", "U+11D53", "U+11DA3", "U+16A63", "U+16AC3",
        "U+16B53", "U+1D7D1", "U+1D7DB", "U+1D7E5", "U+1D7EF", "U+1D7F9",
        "U+1E143", "U+1E2F3", "U+1E953", "U+1FBF3"},
    {
        "4", "U+0664", "۴", "U+06F4", "߄", "U+07C4", "U+096A", "৪", "U+09EA",
        "U+0A6A", "૪", "U+0AEA", "U+0B6A", "௪", "U+0BEA", "U+0C6A", "೪",
        "U+0CEA", "U+0D6A", "෪", "U+0DEA", "U+0E54", "໔", "U+0ED4", "U+0F24",
        "U+1044", "႔", "U+1094", "៤", "U+17E4", "U+1814", "U+194A", "᧔",
        "U+19D4", "᪄", "U+1A84", "᪔", "U+1A94", "U+1B54", "᮴", "U+1BB4",
        "U+1C44", "U+1C54", "U+A624", "꣔", "U+A8D4", "U+A904", "꧔", "U+A9D4",
        "꧴", "U+A9F4", "U+AA54", "꯴", "U+ABF4", "U+FF14", "U+104A4",
        "U+10D34", "U+1106A", "U+110F4", "U+1113A", "U+111D4", "U+112F4",
        "U+11454", "U+114D4", "U+11654", "U+116C4", "U+11734", "U+118E4",
        "U+11954", "U+11C54", "U+11D54", "U+11DA4", "U+16A64", "U+16AC4",
        "U+16B54", "U+1D7D2", "U+1D7DC", "U+1D7E6", "U+1D7F0", "U+1D7FA",
        "U+1E144", "U+1E2F4", "U+1E954", "U+1FBF4"},
    {
        "5", "U+0665", "۵", "U+06F5", "߅", "U+07C5", "U+096B", "৫", "U+09EB",
        "U+0A6B", "૫", "U+0AEB", "U+0B6B", "௫", "U+0BEB", "U+0C6B", "೫",
        "U+0CEB", "U+0D6B", "෫", "U+0DEB", "U+0E55", "໕", "U+0ED5", "U+0F25",
        "U+1045", "႕", "U+1095", "៥", "U+17E5", "U+1815", "U+194B", "᧕",
        "U+19D5", "᪅", "U+1A85", "᪕", "U+1A95", "U+1B55", "᮵", "U+1BB5",
        "U+1C45", "U+1C55", "U+A625", "꣕", "U+A8D5", "U+A905", "꧕", "U+A9D5",
        "꧵", "U+A9F5", "U+AA55", "꯵", "U+ABF5", "U+FF15", "U+104A5",
        "U+10D35", "U+1106B", "U+110F5", "U+1113B", "U+111D5", "U+112F5",
        "U+11455", "U+114D5", "U+11655", "U+116C5", "U+11735", "U+118E5",
        "U+11955", "U+11C55", "U+11D55", "U+11DA5", "U+16A65", "U+16AC5",
        "U+16B55", "U+1D7D3", "U+1D7DD", "U+1D7E7", "U+1D7F1", "U+1D7FB",
        "U+1E145", "U+1E2F5", "U+1E955", "U+1FBF5"},
    {
        "6", "U+0666", "۶", "U+06F6", "߆", "U+07C6", "U+096C", "৬", "U+09EC",
        "U+0A6C", "૬", "U+0AEC", "U+0B6C", "௬", "U+0BEC", "U+0C6C", "೬",
        "U+0CEC", "U+0D6C", "෬", "U+0DEC", "U+0E56", "໖", "U+0ED6", "U+0F26",
        "U+1046", "႖", "U+1096", "៦", "U+17E6", "U+1816", "U+194C", "᧖",
        "U+19D6", "᪆", "U+1A86", "᪖", "U+1A96", "U+1B56", "᮶", "U+1BB6",
        "U+1C46", "U+1C56", "U+A626", "꣖", "U+A8D6", "U+A906", "꧖", "U+A9D6",
        "꧶", "U+A9F6", "U+AA56", "꯶", "U+ABF6", "U+FF16", "U+104A6",
        "U+10D36", "U+1106C", "U+110F6", "U+1113C", "U+111D6", "U+112F6",
        "U+11456", "U+114D6", "U+11656", "U+116C6", "U+11736", "U+118E6",
        "U+11956", "U+11C56", "U+11D56", "U+11DA6", "U+16A66", "U+16AC6",
        "U+16B56", "U+1D7D4", "U+1D7DE", "U+1D7E8", "U+1D7F2", "U+1D7FC",
        "U+1E146", "U+1E2F6", "U+1E956", "U+1FBF6"},
    {
        "7", "U+0667", "۷", "U+06F7", "߇", "U+07C7", "U+096D", "৭", "U+09ED",
        "U+0A6D", "૭", "U+0AED", "U+0B6D", "௭", "U+0BED", "U+0C6D", "೭",
        "U+0CED", "U+0D6D", "෭", "U+0DED", "U+0E57", "໗", "U+0ED7", "U+0F27",
        "U+1047", "႗", "U+1097", "៧", "U+17E7", "U+1817", "U+194D", "᧗",
        "U+19D7", "᪇", "U+1A87", "᪗", "U+1A97", "U+1B57", "᮷", "U+1BB7",
        "U+1C47", "U+1C57", "U+A627", "꣗", "U+A8D7", "U+A907", "꧗", "U+A9D7",
        "꧷", "U+A9F7", "U+AA57", "꯷", "U+ABF7", "U+FF17", "U+104A7",
        "U+10D37", "U+1106D", "U+110F7", "U+1113D", "U+111D7", "U+112F7",
        "U+11457", "U+114D7", "U+11657", "U+116C7", "U+11737", "U+118E7",
        "U+11957", "U+11C57", "U+11D57", "U+11DA7", "U+16A67", "U+16AC7",
        "U+16B57", "U+1D7D5", "U+1D7DF", "U+1D7E9", "U+1D7F3", "U+1D7FD",
        "U+1E147", "U+1E2F7", "U+1E957", "U+1FBF7"},
    {
        "8", "U+0668", "۸", "U+06F8", "߈", "U+07C8", "U+096E", "৮", "U+09EE",
        "U+0A6E", "૮", "U+0AEE", "U+0B6E", "௮", "U+0BEE", "U+0C6E", "೮",
        "U+0CEE", "U+0D6E", "෮", "U+0DEE", "U+0E58", "໘", "U+0ED8", "U+0F28",
        "U+1048", "႘", "U+1098", "៨", "U+17E8", "U+1818", "U+194E", "᧘",
        "U+19D8", "᪈", "U+1A88", "᪘", "U+1A98", "U+1B58", "᮸", "U+1BB8",
        "U+1C48", "U+1C58", "U+A628", "꣘", "U+A8D8", "U+A908", "꧘", "U+A9D8",
        "꧸", "U+A9F8", "U+AA58", "꯸", "U+ABF8", "U+FF18", "U+104A8",
        "U+10D38", "U+1106E", "U+110F8", "U+1113E", "U+111D8", "U+112F8",
        "U+11458", "U+114D8", "U+11658", "U+116C8", "U+11738", "U+118E8",
        "U+11958", "U+11C58", "U+11D58", "U+11DA8", "U+16A68", "U+16AC8",
        "U+16B58", "U+1D7D6", "U+1D7E0", "U+1D7EA", "U+1D7F4", "U+1D7FE",
        "U+1E148", "U+1E2F8", "U+1E958", "U+1FBF8"},
    {
        "9", "U+0669", "۹", "U+06F9", "߉", "U+07C9", "U+096F", "৯", "U+09EF",
        "U+0A6F", "૯", "U+0AEF", "U+0B6F", "௯", "U+0BEF", "U+0C6F", "೯",
        "U+0CEF", "U+0D6F", "෯", "U+0DEF", "U+0E59", "໙", "U+0ED9", "U+0F29",
        "U+1049", "႙", "U+1099", "៩", "U+17E9", "U+1819", "U+194F", "᧙",
        "U+19D9", "᪉", "U+1A89", "᪙", "U+1A99", "U+1B59", "᮹", "U+1BB9",
        "U+1C49", "U+1C59", "U+A629", "꣙", "U+A8D9", "U+A909", "꧙", "U+A9D9",
        "꧹", "U+A9F9", "U+AA59", "꯹", "U+ABF9", "U+FF19", "U+104A9",
        "U+10D39", "U+1106F", "U+110F9", "U+1113F", "U+111D9", "U+112F9",
        "U+11459", "U+114D9", "U+11659", "U+116C9", "U+11739", "U+118E9",
        "U+11959", "U+11C59", "U+11D59", "U+11DA9", "U+16A69", "U+16AC9",
        "U+16B59", "U+1D7D7", "U+1D7E1", "U+1D7EB", "U+1D7F5", "U+1D7FF",
        "U+1E149", "U+1E2F9", "U+1E959", "U+1FBF9"}
>>

Digits == UNION {DecimalDigits[d + 1] : d \in 0..9}

\* the characters for which str.isdigit() holds and str.isdecimal() does not:
\* superscripts, subscripts, circled digits and the like; int() rejects them
OtherDigits == {
    "²", "U+00B2", "³", "U+00B3", "¹", "U+00B9", "U+1369", "U+136A", "U+136B",
    "U+136C", "U+136D", "U+136E", "U+136F", "U+1370", "U+1371", "᧚", "U+19DA",
    "U+2070", "U+2074", "U+2075", "U+2076", "U+2077", "U+2078", "U+2079", "₀",
    "U+2080", "₁", "U+2081", "₂", "U+2082", "₃", "U+2083", "₄", "U+2084", "₅",
    "U+2085", "₆", "U+2086", "₇", "U+2087", "₈", "U+2088", "₉", "U+2089",
    "U+2460", "U+2461", "U+2462", "U+2463", "U+2464", "U+2465", "U+2466",
    "U+2467", "U+2468", "U+2474", "U+2475", "U+2476", "U+2477", "U+2478",
    "U+2479", "U+247A", "U+247B", "U+247C", "⒈", "U+2488", "⒉", "U+2489", "⒊",
    "U+248A", "⒋", "U+248B", "⒌", "U+248C", "⒍", "U+248D", "⒎", "U+248E", "⒏",
    "U+248F", "⒐", "U+2490", "⓪", "U+24EA", "⓵", "U+24F5", "⓶", "U+24F6", "⓷",
    "U+24F7", "⓸", "U+24F8", "⓹", "U+24F9", "⓺", "U+24FA", "⓻", "U+24FB", "⓼",
    "U+24FC", "⓽", "U+24FD", "⓿", "U+24FF", "U+2776", "U+2777", "U+2778",
    "U+2779", "U+277A", "U+277B", "U+277C", "U+277D", "U+277E", "➀", "U+2780",
    "➁", "U+2781", "➂", "U+2782", "➃", "U+2783", "➄", "U+2784", "➅", "U+2785",
    "➆", "U+2786", "➇", "U+2787", "➈", "U+2788", "➊", "U+278A", "➋", "U+278B",
    "➌", "U+278C", "➍", "U+278D", "➎", "U+278E", "➏", "U+278F", "➐", "U+2790",
    "➑", "U+2791", "➒", "U+2792", "U+10A40", "U+10A41", "U+10A42", "U+10A43",
    "U+10E60", "U+10E61", "U+10E62", "U+10E63", "U+10E64", "U+10E65",
    "U+10E66", "U+10E67", "U+10E68", "U+11052", "U+11053", "U+11054",
    "U+11055", "U+11056", "U+11057", "U+11058", "U+11059", "U+1105A",
    "U+1F100", "U+1F101", "U+1F102", "U+1F103", "U+1F104", "U+1F105",
    "U+1F106", "U+1F107", "U+1F108", "U+1F109", "U+1F10A"}

Brackets == {"(", ")", "{", "}"}

\* s[i:] for a 1-based i
Tail_(s, i) == SubSeq(s, i, Len(s))

RECURSIVE LStrip(_)
LStrip(s) ==
    IF s # <<>> /\ Head(s) \in Whitespace THEN LStrip(Tail(s)) ELSE s

RECURSIVE RStrip(_)
RStrip(s) ==
    IF s # <<>> /\ s[Len(s)] \in Whitespace
    THEN RStrip(SubSeq(s, 1, Len(s) - 1))
    ELSE s

\* str.strip()
Strip(s) == RStrip(LStrip(s))

\* the index of the first sep at or after i, or 0
RECURSIVE Find(_, _, _)
Find(s, sep, i) ==
    IF i > Len(s) THEN 0
    ELSE IF s[i] = sep THEN i
    ELSE Find(s, sep, i + 1)

\* str.split(sep): always at least one part
RECURSIVE Split(_, _)
Split(s, sep) ==
    LET i == Find(s, sep, 1)
    IN  IF i = 0 THEN <<s>>
        ELSE <<SubSeq(s, 1, i - 1)>> \o Split(Tail_(s, i + 1), sep)

\* sep.join(parts)
RECURSIVE Join(_, _)
Join(parts, sep) ==
    IF parts = <<>> THEN <<>>
    ELSE IF Len(parts) = 1 THEN parts[1]
    ELSE parts[1] \o <<sep>> \o Join(Tail(parts), sep)

(***************************************************************************)
(* The per-note callables handed to the rewrite engine.                    *)
(***************************************************************************)
Processors == {"keep", "delete_break", "delete_all", "to_empty", "add_hold"}

\* note_processor(n)
ApplyProcessor(p, n) ==
    CASE p = "keep" -> n
      [] p = "delete_break" -> IF \E i \in 1..Len(n) : n[i] = "b" THEN None ELSE n
      [] p = "delete_all" -> None
      [] p = "to_empty" -> <<>>
      [] p = "add_hold" -> n \o <<"h">>

\* the callables that return the note unchanged or None
DeleteOnly == {"keep", "delete_break", "delete_all"}

(***************************************************************************)
(* effect/delete.py                                                        *)
(***************************************************************************)
\* the notes of a beat with one whitespace character at most taken off each end
StrippedNotes_one_character(beat) ==
    LET notes == Split(beat, "/")
        lcut(n) == IF n # <<>> /\ Head(n) \in Whitespace THEN Tail(n) ELSE n
        rcut(n) == IF n # <<>> /\ n[Len(n)] \in Whitespace
                   THEN SubSeq(n, 1, Len(n) - 1) ELSE n
    IN  [i \in 1..Len(notes) |-> rcut(lcut(notes[i]))]

\* [note.strip() for note in beat.split('/')]
StrippedNotes(beat) ==
    LET notes == Split(beat, "/")
    IN  [i \in 1..Len(notes) |-> Strip(notes[i])]

\* the arguments of the calls process_beat makes, in order
process_beat_calls(beat) ==
    IF Strip(beat) = <<>> THEN <<>> ELSE StrippedNotes(beat)

\* the for loop of process_beat: kept_notes after the notes from i on
RECURSIVE KeptNotes(_, _, _)
KeptNotes(notes, p, i) ==
    IF i > Len(notes) THEN <<>>
    ELSE LET processed == ApplyProcessor(p, notes[i])
         IN  IF processed # None /\ processed # <<>>
             THEN <<processed>> \o KeptNotes(notes, p, i + 1)
             ELSE KeptNotes(notes, p, i + 1)

\* process_beat keeping every result that is not None, the empty ones too
process_beat_keep_empty(beat, p) ==
    IF Strip(beat) = <<>> THEN <<>>
    ELSE LET ns == StrippedNotes(beat)
             rs == [i \in 1..Len(ns) |-> ApplyProcessor(p, ns[i])]
             kept_notes == SelectSeq(rs, LAMBDA r : r # None)
         IN  IF kept_notes # <<>> THEN Join(kept_notes, "/") ELSE <<>>

\* process_beat whose loop stops one note early
process_beat_skip_last(beat, p) ==
    IF Strip(beat) = <<>> THEN <<>>
    ELSE LET ns == StrippedNotes(beat)
             kept_notes == KeptNotes(SubSeq(ns, 1, Len(ns) - 1), p, 1)
         IN  IF kept_notes # <<>> THEN Join(kept_notes, "/") ELSE <<>>

process_beat(beat, p) ==
    IF Strip(beat) = <<>> THEN <<>>
    ELSE LET kept_notes == KeptNotes(StrippedNotes(beat), p, 1)
         IN  IF kept_notes # <<>> THEN Join(kept_notes, "/") ELSE <<>>

process_notes_part(notes_part, p) ==
    LET beats == Split(notes_part, ",")
    IN  Join([i \in 1..Len(beats) |-> process_beat(beats[i], p)], ",")

\* the end of a run of digits starting at i (i itself when there is none)
RECURSIVE DigitsEnd(_, _)
DigitsEnd(s, i) ==
    IF i <= Len(s) /\ s[i] \in Digits THEN DigitsEnd(s, i + 1) ELSE i

\* HeaderEnd with \{\d*\} for \{\d+\}: an empty brace pair is a header
HeaderEnd_empty_braces(s, i) ==
    IF i > Len(s) THEN i
    ELSE IF s[i] = "{" THEN
        LET d == DigitsEnd(s, i + 1)
        IN  IF d <= Len(s) /\ s[d] = "}" THEN d + 1 ELSE i
    ELSE IF s[i] = "(" THEN
        LET d == DigitsEnd(s, i + 1)
            e == IF d <= Len(s) /\ s[d] = "." THEN d + 1 ELSE d
            f == DigitsEnd(s, e)
        IN  IF d > i + 1 /\ f <= Len(s) /\ s[f] = ")" THEN f + 1 ELSE i
    ELSE i

\* where one header token \(\d+\.?\d*\) or \{\d+\} starting at i ends
\* (the index after it), or i when none starts there
HeaderEnd(s, i) ==
    IF i > Len(s) THEN i
    ELSE IF s[i] = "{" THEN
        LET d == DigitsEnd(s, i + 1)
        IN  IF d > i + 1 /\ d <= Len(s) /\ s[d] = "}" THEN d + 1 ELSE i
    ELSE IF s[i] = "(" THEN
        LET d == DigitsEnd(s, i + 1)
            e == IF d <= Len(s) /\ s[d] = "." THEN d + 1 ELSE d
            f == DigitsEnd(s, e)
        IN  IF d > i + 1 /\ f <= Len(s) /\ s[f] = ")" THEN f + 1 ELSE i
    ELSE i

\* group 1, (?:header)*: the end of the longest run of header tokens
RECURSIVE HeadRunEnd(_, _)
HeadRunEnd(s, i) ==
    LET h == HeaderEnd(s, i)
    IN  IF h = i THEN i ELSE HeadRunEnd(s, h)

\* group 2, [^(){}]*: the end of the longest run without a bracket
RECURSIVE PlainRunEnd(_, _)
PlainRunEnd(s, i) ==
    IF i <= Len(s) /\ s[i] \notin Brackets THEN PlainRunEnd(s, i + 1) ELSE i

\* pattern.findall(line) from index i: the (head, notes_part) pairs.  An empty
\* match is reported and the scan moves one character on.
RECURSIVE FindAll(_, _)
FindAll(s, i) ==
    IF i > Len(s) + 1 THEN <<>>
    ELSE LET h == HeadRunEnd(s, i)
             e == PlainRunEnd(s, h)
             m == [head |-> SubSeq(s, i, h - 1), notes_part |-> SubSeq(s, h, e - 1)]
         IN  IF e = i
             THEN <<m>> \o (IF i > Len(s) THEN <<>> ELSE FindAll(s, i + 1))
             ELSE <<m>> \o FindAll(s, e)

\* ''.join(parts)
RECURSIVE Concat(_)
Concat(parts) ==
    IF parts = <<>> THEN <<>> ELSE Head(parts) \o Concat(Tail(parts))

\* process_line that writes the rewritten plain runs and leaves the heads out
process_line_without_heads(l, p) ==
    LET ms == FindAll(l, 1)
    IN  Concat([i \in 1..Len(ms) |-> process_notes_part(ms[i].notes_part, p)])

process_line(l, p) ==
    LET ms == FindAll(l, 1)
    IN  Concat([i \in 1..Len(ms) |->
                 ms[i].head \o process_notes_part(ms[i].notes_part, p)])

\* the arguments of every note_processor call process_line makes, in order
process_line_calls(l) ==
    LET ms == FindAll(l, 1)
        ofPart(part) ==
            LET beats == Split(part, ",")
            IN  Concat([j \in 1..Len(beats) |-> process_beat_calls(beats[j])])
    IN  Concat([i \in 1..Len(ms) |-> ofPart(ms[i].notes_part)])

\* the number of note_processor calls process_notes_part makes
PartCallCount(notes_part) ==
    LET beats == Split(notes_part, ",")
    IN  Len(Concat([j \in 1..Len(beats) |-> process_beat_calls(beats[j])]))

\* default_processor(note) of chart_delete, r being what random.random() returns
default_processor(n, a, r) == IF r >= a THEN n ELSE None

\* processor(n) as the k-th call of the random source would answer it;
\* env holds note_processor, alpha and the draws of chart_delete
Processor(env, n, k) ==
    IF env.note_processor = "None"
    THEN default_processor(n, env.alpha, env.draws[k])
    ELSE ApplyProcessor(env.note_processor, n)

\* the for loop of process_beat when k - 1 draws were made before the beat
RECURSIVE KeptNotesFrom(_, _, _, _)
KeptNotesFrom(notes, env, k, i) ==
    IF i > Len(notes) THEN <<>>
    ELSE LET processed == Processor(env, notes[i], k + i - 1)
         IN  IF processed # None /\ processed # <<>>
             THEN <<processed>> \o KeptNotesFrom(notes, env, k, i + 1)
             ELSE KeptNotesFrom(notes, env, k, i + 1)

process_beat_from(beat, env, k) ==
    IF Strip(beat) = <<>> THEN <<>>
    ELSE LET kept_notes == KeptNotesFrom(StrippedNotes(beat), env, k, 1)
         IN  IF kept_notes # <<>> THEN Join(kept_notes, "/") ELSE <<>>

RECURSIVE BeatsFrom(_, _, _, _)
BeatsFrom(beats, env, k, j) ==
    IF j > Len(beats) THEN <<>>
    ELSE <<process_beat_from(beats[j], env, k)>>
         \o BeatsFrom(beats, env, k + Len(process_beat_calls(beats[j])), j + 1)

process_notes_part_from(notes_part, env, k) ==
    Join(BeatsFrom(Split(notes_part, ","), env, k, 1), ",")

RECURSIVE MatchesFrom(_, _, _, _)
MatchesFrom(ms, env, k, i) ==
    IF i > Len(ms) THEN <<>>
    ELSE ms[i].head \o process_notes_part_from(ms[i].notes_part, env, k)
         \o MatchesFrom(ms, env, k + PartCallCount(ms[i].notes_part), i + 1)

process_line_from(l, env, k) == MatchesFrom(FindAll(l, 1), env, k, 1)

\* [process_line(line.strip(), processor) for line in chart_lines]
RECURSIVE LinesFrom(_, _, _, _)
LinesFrom(lines, env, k, i) ==
    IF i > Len(lines) THEN <<>>
    ELSE <<process_line_from(Strip(lines[i]), env, k)>>
         \o LinesFrom(lines, env, k + Len(process_line_calls(Strip(lines[i]))), i + 1)

\* chart_delete that leaves blank lines out of its result
chart_delete_skip_blank(lines, a, p, ds) ==
    LET given == SelectSeq(lines, LAMBDA l : Strip(l) # <<>>)
    IN  LinesFrom(given, [note_processor |-> p, alpha |-> a, draws |-> ds], 1, 1)

\* chart_delete that deletes every note when alpha is 1, whatever the callable
chart_delete_alpha_first(lines, a, p, ds) ==
    LinesFrom(lines, [note_processor |-> IF a = 10 /\ p # "None" THEN "delete_all" ELSE p,
                      alpha |-> a, draws |-> ds], 1, 1)

\* chart_delete(chart_lines, alpha, note_processor=p), ds being what
\* random.random() returns, in order
chart_delete(lines, a, p, ds) ==
    LinesFrom(lines, [note_processor |-> p, alpha |-> a, draws |-> ds], 1, 1)

\* the number of note_processor calls chart_delete makes
chart_delete_calls(lines) ==
    Len(Concat([i \in 1..Len(lines) |-> process_line_calls(Strip(lines[i]))]))

\* the number of random.random() calls chart_delete makes
chart_delete_draws(lines, p) ==
    IF p = "None" THEN chart_delete_calls(lines) ELSE 0

(***************************************************************************)
(* effect/random_delete.py                                                 *)
(***************************************************************************)
\* the number of random.random() calls process_beat makes
random_beat_draws(beat) ==
    IF Strip(beat) = <<>> THEN 0 ELSE Len(Split(beat, "/"))

\* the for loop of process_beat when k - 1 draws were made before the beat
RECURSIVE random_KeptNotes(_, _, _, _, _)
random_KeptNotes(notes, a, ds, k, i) ==
    IF i > Len(notes) THEN <<>>
    ELSE IF ds[k + i - 1] >= a
         THEN <<Strip(notes[i])>> \o random_KeptNotes(notes, a, ds, k, i + 1)
         ELSE random_KeptNotes(notes, a, ds, k, i + 1)

random_process_beat(beat, a, ds, k) ==
    IF Strip(beat) = <<>> THEN <<>>
    ELSE LET kept_notes == random_KeptNotes(Split(beat, "/"), a, ds, k, 1)
         IN  IF kept_notes # <<>> THEN Join(kept_notes, "/") ELSE <<>>

RECURSIVE random_Beats(_, _, _, _, _)
random_Beats(beats, a, ds, k, j) ==
    IF j > Len(beats) THEN <<>>
    ELSE <<random_process_beat(beats[j], a, ds, k)>>
         \o random_Beats(beats, a, ds, k + random_beat_draws(beats[j]), j + 1)

random_process_notes_part(notes_part, a, ds, k) ==
    Join(random_Beats(Split(notes_part, ","), a, ds, k, 1), ",")

\* the number of random.random() calls process_notes_part makes
random_part_draws(notes_part) ==
    LET beats == Split(notes_part, ",")
        RECURSIVE sum(_)
        sum(j) == IF j > Len(beats) THEN 0 ELSE random_beat_draws(beats[j]) + sum(j + 1)
    IN  sum(1)

RECURSIVE random_Matches(_, _, _, _, _)
random_Matches(ms, a, ds, k, i) ==
    IF i > Len(ms) THEN <<>>
    ELSE ms[i].head \o random_process_notes_part(ms[i].notes_part, a, ds, k)
         \o random_Matches(ms, a, ds, k + random_part_draws(ms[i].notes_part), i + 1)

random_process_line(l, a, ds, k) == random_Matches(FindAll(l, 1), a, ds, k, 1)

\* the number of random.random() calls process_line makes
random_line_draws(l) ==
    LET ms == FindAll(l, 1)
        RECURSIVE sum(_)
        sum(i) == IF i > Len(ms) THEN 0 ELSE random_part_draws(ms[i].notes_part) + sum(i + 1)
    IN  sum(1)

RECURSIVE random_Lines(_, _, _, _, _)
random_Lines(lines, a, ds, k, i) ==
    IF i > Len(lines) THEN <<>>
    ELSE <<random_process_line(Strip(lines[i]), a, ds, k)>>
         \o random_Lines(lines, a, ds, k + random_line_draws(Strip(lines[i])), i + 1)

\* random_delete(chart_lines, alpha), ds being what random.random() returns
random_delete(lines, a, ds) == random_Lines(lines, a, ds, 1, 1)

\* the number of random.random() calls random_delete makes
random_delete_draws(lines) ==
    LET RECURSIVE sum(_)
        sum(i) == IF i > Len(lines) THEN 0 ELSE random_line_draws(Strip(lines[i])) + sum(i + 1)
    IN  sum(1)

(***************************************************************************)
(* example/Credits.py                                                      *)
(***************************************************************************)
\* the range of x, in thousandths
L == 400
R == 1300

DigitChar(d) == <<"0", "1", "2", "3", "4", "5", "6", "7", "8", "9">>[d + 1]

\* the thousandths below 10 that end in 5 and that round(x, 2) rounds down:
\* the float nearest to x / 1000 lies below the half, or lies on it with an
\* even hundredth below (0.125, 0.625)
RoundedDown == {
    15, 45, 75, 105, 125, 145, 155, 175, 185, 205, 215, 235, 245, 285, 295,
    305, 345, 355, 365, 415, 425, 435, 475, 485, 495, 565, 575, 585, 595, 605,
    615, 625, 695, 705, 715, 725, 735, 745, 815, 825, 835, 845, 855, 865, 945,
    955, 965, 975, 985, 995, 1005, 1015, 1025, 1035, 1045, 1055, 1065, 1075,
    1085, 1095, 1105, 1115, 1125, 1255, 1265, 1275, 1285, 1295, 1305, 1315,
    1325, 1335, 1345, 1355, 1365, 1505, 1515, 1525, 1535, 1545, 1555, 1565,
    1575, 1585, 1595, 1605, 1615, 1625, 1755, 1765, 1775, 1785, 1795, 1805,
    1815, 1825, 1835, 1845, 1855, 1865, 2005, 2025, 2045, 2065, 2085, 2105,
    2125, 2135, 2155, 2175, 2195, 2215, 2235, 2255, 2275, 2295, 2315, 2335,
    2355, 2385, 2405, 2425, 2445, 2465, 2485, 2505, 2525, 2545, 2565, 2585,
    2605, 2625, 2635, 2655, 2675, 2695, 2715, 2735, 2755, 2775, 2795, 2815,
    2835, 2855, 2885, 2905, 2925, 2945, 2965, 2985, 3005, 3025, 3045, 3065,
    3085, 3105, 3125, 3135, 3155, 3175, 3195, 3215, 3235, 3255, 3275, 3295,
    3315, 3335, 3355, 3385, 3405, 3425, 3445, 3465, 3485, 3505, 3525, 3545,
    3565, 3585, 3605, 3625, 3635, 3655, 3675, 3695, 3715, 3735, 3755, 3775,
    3795, 3815, 3835, 3855, 3885, 3905, 3925, 3945, 3965, 3985, 4005, 4015,
    4045, 4055, 4085, 4095, 4125, 4135, 4145, 4175, 4185, 4215, 4225, 4255,
    4265, 4295, 4305, 4335, 4345, 4385, 4395, 4425, 4435, 4465, 4475, 4505,
    4515, 4545, 4555, 4585, 4595, 4625, 4635, 4645, 4675, 4685, 4715, 4725,
    4755, 4765, 4795, 4805, 4835, 4845, 4885, 4895, 4925, 4935, 4965, 4975,
    5005, 5015, 5045, 5055, 5085, 5095, 5125, 5135, 5145, 5175, 5185, 5215,
    5225, 5255, 5265, 5295, 5305, 5335, 5345, 5385, 5395, 5425, 5435, 5465,
    5475, 5505, 5515, 5545, 5555, 5585, 5595, 5625, 5635, 5645, 5675, 5685,
    5715, 5725, 5755, 5765, 5795, 5805, 5835, 5845, 5885, 5895, 5925, 5935,
    5965, 5975, 6005, 6015, 6045, 6055, 6085, 6095, 6125, 6135, 6145, 6175,
    6185, 6215, 6225, 6255, 6265, 6295, 6305, 6335, 6345, 6385, 6395, 6425,
    6435, 6465, 6475, 6505, 6515, 6545, 6555, 6585, 6595, 6625, 6635, 6645,
    6675, 6685, 6715, 6725, 6755, 6765, 6795, 6805, 6835, 6845, 6885, 6895,
    6925, 6935, 6965, 6975, 7005, 7015, 7045, 7055, 7085, 7095, 7125, 7135,
    7145, 7175, 7185, 7215, 7225, 7255, 7265, 7295, 7305, 7335, 7345, 7385,
    7395, 7425, 7435, 7465, 7475, 7505, 7515, 7545, 7555, 7585, 7595, 7625,
    7635, 7645, 7675, 7685, 7715, 7725, 7755, 7765, 7795, 7805, 7835, 7845,
    7885, 7895, 7925, 7935, 7965, 7975, 8045, 8055, 8065, 8075, 8125, 8135,
    8145, 8155, 8165, 8215, 8225, 8235, 8245, 8295, 8305, 8315, 8325, 8385,
    8395, 8405, 8415, 8465, 8475, 8485, 8495, 8545, 8555, 8565, 8575, 8625,
    8635, 8645, 8655, 8665, 8715, 8725, 8735, 8745, 8795, 8805, 8815, 8825,
    8885, 8895, 8905, 8915, 8965, 8975, 8985, 8995, 9045, 9055, 9065, 9075,
    9125, 9135, 9145, 9155, 9165, 9215, 9225, 9235, 9245, 9295, 9305, 9315,
    9325, 9385, 9395, 9405, 9415, 9465, 9475, 9485, 9495, 9545, 9555, 9565,
    9575, 9625, 9635, 9645, 9655, 9665, 9715, 9725, 9735, 9745, 9795, 9805,
    9815, 9825, 9885, 9895, 9905, 9915, 9965, 9975, 9985, 9995}

\* round(x, 2) of the float nearest to x thousandths, in hundredths
Round2(x) == IF x \in RoundedDown THEN x \div 10 ELSE (x + 5) \div 10

\* f"{x}" of a float of at most two decimals below 10, given in hundredths
FloatRepr(h) ==
    <<DigitChar(h \div 100), ".", DigitChar((h % 100) \div 10)>>
    \o (IF h % 10 = 0 THEN <<>> ELSE <<DigitChar(h % 10)>>)

\* what generate_hs_string returns once its loop has accepted x
hs_result(x) == <<"<", "H", "S", "*">> \o FloatRepr(Round2(x)) \o <<">">>

\* the test of the rejection loop of generate_hs_string
hs_accepts(x) == L <= x /\ x <= R

\* kept_notes of process_beat after its for loop
credits_kept_notes(beat, p) == KeptNotes(StrippedNotes(beat), p, 1)

\* process_beat that asks for a decoration for every beat that is not blank
credits_decorates_every_beat(kept_notes) == TRUE

\* process_beat calls generate_hs_string only when a note was kept
credits_decorates(kept_notes) == kept_notes # <<>>

\* the return value of process_beat, hs being what generate_hs_string returned
credits_return(kept_notes, hs) ==
    hs \o (IF kept_notes # <<>> THEN Join(kept_notes, "/") ELSE <<>>)

(***************************************************************************)
(* effect/pattern.py                                                       *)
(***************************************************************************)
ReservedLanes == {"A", "B", "C", "D", "E"}

\* what the model returns where the code would raise IndexError
IndexError == <<"IndexError">>

\* _get_root without the len(note) >= 2 test: note[1] of a lone letter raises
_get_root_no_length_test(n) ==
    IF n = <<>> THEN None
    ELSE IF n[1] \in ReservedLanes
    THEN (IF Len(n) >= 2 THEN <<n[1], n[2]>> ELSE IndexError)
    ELSE <<n[1]>>

_get_root(n) ==
    IF n = <<>> THEN None
    ELSE IF n[1] \in ReservedLanes /\ Len(n) >= 2 THEN <<n[1], n[2]>>
    ELSE <<n[1]>>

\* the index of the first close at or after i with no line break before it,
\* or 0: where .*? followed by the closing bracket first succeeds
RECURSIVE FindClose(_, _, _)
FindClose(s, close, i) ==
    IF i > Len(s) THEN 0
    ELSE IF s[i] = close THEN i
    ELSE IF s[i] = "\n" THEN 0
    ELSE FindClose(s, close, i + 1)

\* re.sub(r'\{.*?\}|\(.*?\)', '', s) from index i
RECURSIVE RemoveSpans(_, _)
RemoveSpans(s, i) ==
    IF i > Len(s) THEN <<>>
    ELSE LET j == IF s[i] = "{" THEN FindClose(s, "}", i + 1)
                  ELSE IF s[i] = "(" THEN FindClose(s, ")", i + 1)
                  ELSE 0
         IN  IF j > 0 THEN RemoveSpans(s, j + 1)
             ELSE <<s[i]>> \o RemoveSpans(s, i + 1)

\* list(filter(None, xs))
RECURSIVE FilterNone(_)
FilterNone(xs) ==
    IF xs = <<>> THEN <<>>
    ELSE IF Head(xs) = None \/ Head(xs) = <<>> THEN FilterNone(Tail(xs))
    ELSE <<Head(xs)>> \o FilterNone(Tail(xs))

extract_roots(block) ==
    LET cleaned == Strip(RemoveSpans(block, 1))
        tokens == Split(cleaned, "/")
    IN  FilterNone([i \in 1..Len(tokens) |-> _get_root(tokens[i])])

\* [b.strip() for b in bs if b.strip()]
RECURSIVE StripNonBlank(_)
StripNonBlank(bs) ==
    IF bs = <<>> THEN <<>>
    ELSE IF Strip(Head(bs)) # <<>>
    THEN <<Strip(Head(bs))>> \o StripNonBlank(Tail(bs))
    ELSE StripNonBlank(Tail(bs))

split_blocks(notes_str) == StripNonBlank(Split(notes_str, ","))

\* [b for b in bs if b]
RECURSIVE NonEmpty(_)
NonEmpty(bs) ==
    IF bs = <<>> THEN <<>>
    ELSE IF Head(bs) # <<>> THEN <<Head(bs)>> \o NonEmpty(Tail(bs))
    ELSE NonEmpty(Tail(bs))

\* process_chart splitting every line on its own instead of the joined text
process_chart_per_line(nd) ==
    Concat([l \in 1..Len(nd) |->
        LET blocks == NonEmpty(split_blocks(nd[l]))
        IN  [i \in 1..Len(blocks) |-> extract_roots(blocks[i])]])

process_chart(nd) ==
    LET blocks == NonEmpty(split_blocks(Concat(nd)))
    IN  [i \in 1..Len(blocks) |-> extract_roots(blocks[i])]

\* sliding_window with range(len(sequence) - window_size): the last window is lost
sliding_window_short(sequence, window_size) ==
    [i \in 1..(Len(sequence) - window_size) |->
        SubSeq(sequence, i, i + window_size - 1)]

\* list(sliding_window(sequence, window_size))
sliding_window(sequence, window_size) ==
    [i \in 1..(Len(sequence) - window_size + 1) |->
        SubSeq(sequence, i, i + window_size - 1)]

\* all(any(note == target for note in time_slot)
\*     for time_slot, target in zip(time_window, target_pattern))
WindowMatches(time_window, target) ==
    \A k \in (1..Len(time_window)) \cap (1..Len(target)) :
        \E n \in 1..Len(time_window[k]) : time_window[k][n] = target[k]

\* the for loop of check_target_pattern over the windows from i on
RECURSIVE AnyWindow(_, _, _)
AnyWindow(windows, target, i) ==
    IF i > Len(windows) THEN FALSE
    ELSE IF WindowMatches(windows[i], target) THEN TRUE
    ELSE AnyWindow(windows, target, i + 1)

check_target_pattern(roots, target) ==
    IF Len(roots) < Len(target) THEN FALSE
    ELSE AnyWindow(sliding_window(roots, Len(target)), target, 1)

(***************************************************************************)
(* The predicates handed to check_song_structure.                          *)
(***************************************************************************)
Conditions == {"always", "never", "pattern_1_8", "no_slots"}

\* condition_func(temporal_roots)
ApplyCondition(c, roots) ==
    CASE c = "always" -> TRUE
      [] c = "never" -> FALSE
      [] c = "pattern_1_8" -> check_target_pattern(roots, <<<<"1">>, <<"8">>>>)
      [] c = "no_slots" -> roots = <<>>

\* the for loop of check_song_structure over the charts from i on
RECURSIVE ScanCharts(_, _, _)
ScanCharts(sg, c, i) ==
    IF i > Len(sg) THEN <<>>
    ELSE IF sg[i].note_data = <<>> THEN ScanCharts(sg, c, i + 1)
    ELSE IF ApplyCondition(c, process_chart(sg[i].note_data))
    THEN <<sg[i].chart_number>> \o ScanCharts(sg, c, i + 1)
    ELSE ScanCharts(sg, c, i + 1)

\* check_song_structure without the test that skips a chart with no note data
RECURSIVE ScanChartsNoSkip(_, _, _)
ScanChartsNoSkip(sg, c, i) ==
    IF i > Len(sg) THEN <<>>
    ELSE IF ApplyCondition(c, process_chart(sg[i].note_data))
    THEN <<sg[i].chart_number>> \o ScanChartsNoSkip(sg, c, i + 1)
    ELSE ScanChartsNoSkip(sg, c, i + 1)

check_song_structure_no_skip(sg, c) == ScanChartsNoSkip(sg, c, 1)

check_song_structure(sg, c) == ScanCharts(sg, c, 1)

\* the arguments of the calls check_song_structure makes to condition_func
RECURSIVE ConditionCalls(_, _)
ConditionCalls(sg, i) ==
    IF i > Len(sg) THEN <<>>
    ELSE IF sg[i].note_data = <<>> THEN ConditionCalls(sg, i + 1)
    ELSE <<process_chart(sg[i].note_data)>> \o ConditionCalls(sg, i + 1)

(***************************************************************************)
(* parser.py                                                               *)
(***************************************************************************)
\* str.startswith(prefix)
StartsWith(s, prefix) ==
    Len(s) >= Len(prefix) /\ SubSeq(s, 1, Len(prefix)) = prefix

\* str.partition(sep): what stands before the first sep, the sep, what follows
Partition(s, sep) ==
    LET i == Find(s, sep, 1)
    IN  IF i = 0 THEN <<s, <<>>, <<>>>>
        ELSE <<SubSeq(s, 1, i - 1), <<sep>>, Tail_(s, i + 1)>>

\* str.isdigit()
IsDigit(s) == s # <<>> /\ \A i \in 1..Len(s) : (s[i] \in Digits \/ s[i] \in OtherDigits)

\* int(s) of an s of decimal digits
RECURSIVE ParseInt(_)
ParseInt(s) ==
    IF s = <<>> THEN 0
    ELSE LET last == CHOOSE d \in 0..9 : s[Len(s)] \in DecimalDigits[d + 1]
         IN  10 * ParseInt(SubSeq(s, 1, Len(s) - 1)) + last

\* str(n) of an int n >= 0
RECURSIVE IntStr(_)
IntStr(n) ==
    IF n < 10 THEN <<DigitChar(n)>> ELSE IntStr(n \div 10) \o <<DigitChar(n % 10)>>

\* a str and a list as values of the metadata dict
StrValue(s) == [type |-> "str", value |-> s]
ListValue(l) == [type |-> "list", value |-> l]

\* d[k] = v
DictSet(d, k, v) == [x \in DOMAIN d \cup {k} |-> IF x = k THEN v ELSE d[x]]

\* d.get(k, default)
DictGet(d, k, default) == IF k \in DOMAIN d THEN d[k] ELSE default

\* _save_inote that adds the lines to the block the key already has
_save_inote_extending(md, key, content) ==
    LET had == IF key \in DOMAIN md THEN md[key].value ELSE <<>>
    IN  DictSet(md, key, ListValue(had \o SelectSeq(content, LAMBDA l : l # <<>>)))

_save_inote(md, key, content) ==
    DictSet(md, key, ListValue(SelectSeq(content, LAMBDA l : l # <<>>)))

\* one turn of the for loop of _parse_metadata; st holds metadata,
\* current_inote_key and inote_buffer
parse_line(st, raw) ==
    LET line_ == Strip(raw)
        closed == IF st.current_inote_key # None
                  THEN [metadata |-> _save_inote(st.metadata, st.current_inote_key,
                                                 st.inote_buffer),
                        current_inote_key |-> None,
                        inote_buffer |-> <<>>]
                  ELSE st
        parts == Partition(Tail_(line_, 2), "=")
        key == parts[1]
        value == parts[3]
    IN  IF line_ = <<>> THEN st
        ELSE IF StartsWith(line_, <<"&">>)
        THEN IF StartsWith(key, <<"i", "n", "o", "t", "e", "_">>)
             THEN [closed EXCEPT !.current_inote_key = key]
             ELSE [closed EXCEPT !.metadata =
                      DictSet(@, key, StrValue(IF value # <<>> THEN Strip(value) ELSE <<>>))]
        ELSE IF line_ = <<"E">> /\ st.current_inote_key # None THEN closed
        ELSE IF st.current_inote_key # None
        THEN [st EXCEPT !.inote_buffer = Append(@, Strip(line_))]
        ELSE st

\* sorted(S) of a set of ints
RECURSIVE Sorted(_)
Sorted(S) ==
    IF S = {} THEN <<>>
    ELSE LET m == CHOOSE x \in S : \A y \in S : x <= y
         IN  <<m>> \o Sorted(S \ {m})

\* _get_chart_numbers that takes every key with a chart prefix, counting a
\* suffix that is not a number as chart 0
_get_chart_numbers_any_suffix(md) ==
    Sorted({IF IsDigit(Partition(k, "_")[3]) THEN ParseInt(Partition(k, "_")[3]) ELSE 0 :
            k \in {x \in DOMAIN md : Partition(x, "_")[1] \in {<<"l", "v">>, <<"d", "e", "s">>, <<"i", "n", "o", "t", "e">>}}})

_get_chart_numbers(md) ==
    Sorted({ParseInt(Partition(k, "_")[3]) :
            k \in {x \in DOMAIN md : /\ Partition(x, "_")[1] \in {<<"l", "v">>, <<"d", "e", "s">>, <<"i", "n", "o", "t", "e">>}
                                     /\ IsDigit(Partition(x, "_")[3])}})

\* int(num_part) raises ValueError in _get_chart_numbers: a chart key whose
\* suffix passes isdigit() holds a digit that is not decimal
_get_chart_numbers_raises(md) ==
    \E k \in DOMAIN md :
        /\ Partition(k, "_")[1] \in {<<"l", "v">>, <<"d", "e", "s">>, <<"i", "n", "o", "t", "e">>}
        /\ IsDigit(Partition(k, "_")[3])
        /\ \E i \in 1..Len(Partition(k, "_")[3]) : Partition(k, "_")[3][i] \in OtherDigits

_build_charts(md) ==
    LET chart_numbers == _get_chart_numbers(md)
    IN  [i \in 1..Len(chart_numbers) |->
            [chart_number |-> chart_numbers[i],
             level |-> DictGet(md, <<"l", "v">> \o <<"_">> \o IntStr(chart_numbers[i]), StrValue(<<>>)),
             description |-> DictGet(md, <<"d", "e", "s">> \o <<"_">> \o IntStr(chart_numbers[i]), StrValue(<<>>)),
             note_data |-> DictGet(md, <<"i", "n", "o", "t", "e">> \o <<"_">> \o IntStr(chart_numbers[i]), ListValue(<<>>))]]

\* get_chart_by_level: the first chart with that number, or None
RECURSIVE get_chart_by_level(_, _)
get_chart_by_level(cs, n) ==
    IF cs = <<>> THEN None
    ELSE IF Head(cs).chart_number = n THEN Head(cs)
    ELSE get_chart_by_level(Tail(cs), n)

(***************************************************************************)
(* searcher.py.  What happens to a file is one of: reading it raises, the  *)
(* matcher raises, the matcher returns None, an empty dict, or a dict with *)
(* details.  The file_path of a file is its position among the files the   *)
(* scanner has processed.                                                  *)
(***************************************************************************)
FileOutcomes == {"read_raises", "matcher_raises", "None", "empty_dict", "dict"}

Raises(o) == o \in {"read_raises", "matcher_raises"}

\* is_match by the truth value of what the matcher returned
is_match_truthy(o) == o = "dict"

\* match_result is not None
is_match(o) == o # "None"

\* _process_file: the new match_results and the value returned, an
\* Optional[MaiChartMatchResult]: <<>> for None, <<result>> for a result
_process_file(results, file_path, o) ==
    IF Raises(o)
    THEN [match_results |-> results, result |-> <<>>]
    ELSE LET result == [file_path |-> file_path,
                        is_match |-> is_match(o),
                        \* match_result or {}
                        match_details |-> IF o = "dict" THEN "details" ELSE "empty"]
         IN  [match_results |-> Append(results, result), result |-> <<result>>]

\* get_matched_results that leaves the filter out
get_matched_results_unfiltered(results) == results

get_matched_results(results) == SelectSeq(results, LAMBDA r : r.is_match)

(***************************************************************************)
(* The values the variables of a component hold while another one runs.    *)
(***************************************************************************)
RewriteIdle ==
    /\ line = <<>>
    /\ note_processor = "unset"
    /\ out_line = <<>>
    /\ calls = <<>>

ClassifyIdle ==
    /\ note = <<>>
    /\ root = None

ChartIdle == note_data = <<>>

MatchIdle ==
    /\ temporal_roots = <<>>
    /\ target_pattern = <<>>
    /\ found = FALSE

SongIdle ==
    /\ song = <<>>
    /\ condition_func = "unset"
    /\ condition_calls = <<>>
    /\ satisfies_number = <<>>

DeleteIdle ==
    /\ chart_lines = <<>>
    /\ alpha = 0
    /\ draws = <<>>
    /\ out_lines = <<>>
    /\ consumed = 0

CreditsIdle ==
    /\ kept = <<>>
    /\ hs_x = 0

ParserIdle ==
    /\ file_lines = <<>>
    /\ metadata = <<>>
    /\ current_inote_key = None
    /\ inote_buffer = <<>>
    /\ charts = <<>>
    /\ chart_num = 0
    /\ chart_found = None

ScannerIdle ==
    /\ history = <<>>
    /\ call_start = 0
    /\ todo = 0
    /\ success_count = 0
    /\ match_results = <<>>
    /\ scan_result = FALSE

(***************************************************************************)
(* The rewrite engine: a line is typed, then process_beat or process_line  *)
(* is called on it with one of the callables.                              *)
(***************************************************************************)
\* U+0663 is the Arabic-Indic digit three
RewriteChars == {"1", "U+0663", "b", " ", ",", "/", "{", "}", "(", ")", "."}

\* what process_notes_part hands to process_beat: no comma, no bracket
IsBeat(s) == \A i \in 1..Len(s) : s[i] \notin Brackets \cup {","}

RewriteInit ==
    /\ pc = "rewrite_input"
    /\ RewriteIdle /\ ClassifyIdle /\ ChartIdle /\ MatchIdle /\ SongIdle
    /\ DeleteIdle /\ CreditsIdle /\ ParserIdle /\ ScannerIdle

TypeLine ==
    /\ pc = "rewrite_input"
    /\ Len(line) < MaxLineLen
    /\ \E c \in RewriteChars : line' = Append(line, c)
    /\ UNCHANGED <<pc, note_processor, out_line, calls>>
    /\ UNCHANGED <<classifyVars, chartVars, matchVars, songVars, deleteVars, creditsVars,
                   parserVars, scannerVars>>

CallProcessBeat ==
    /\ pc = "rewrite_input"
    /\ IsBeat(line)
    /\ \E p \in Processors :
        /\ note_processor' = p
        /\ out_line' = process_beat(line, p)
    /\ calls' = process_beat_calls(line)
    /\ pc' = "beat_done"
    /\ UNCHANGED line
    /\ UNCHANGED <<classifyVars, chartVars, matchVars, songVars, deleteVars, creditsVars,
                   parserVars, scannerVars>>

CallProcessLine ==
    /\ pc = "rewrite_input"
    /\ \E p \in Processors :
        /\ note_processor' = p
        /\ out_line' = process_line(line, p)
    /\ calls' = process_line_calls(line)
    /\ pc' = "line_done"
    /\ UNCHANGED line
    /\ UNCHANGED <<classifyVars, chartVars, matchVars, songVars, deleteVars, creditsVars,
                   parserVars, scannerVars>>

RewriteNext == TypeLine \/ CallProcessBeat \/ CallProcessLine

SpecRewrite == RewriteInit /\ [][RewriteNext]_vars
(***************************************************************************)
(* The classifier: a note token is typed, then _get_root is called on it.  *)
(***************************************************************************)
NoteChars == {"A", "E", "F", "1", " "}

ClassifyInit ==
    /\ pc = "classify_input"
    /\ RewriteIdle /\ ClassifyIdle /\ ChartIdle /\ MatchIdle /\ SongIdle
    /\ DeleteIdle /\ CreditsIdle /\ ParserIdle /\ ScannerIdle

TypeNote ==
    /\ pc = "classify_input"
    /\ Len(note) < MaxNoteLen
    /\ \E c \in NoteChars : note' = Append(note, c)
    /\ UNCHANGED <<pc, root>>
    /\ UNCHANGED <<rewriteVars, chartVars, matchVars, songVars, deleteVars, creditsVars,
                   parserVars, scannerVars>>

CallGetRoot ==
    /\ pc = "classify_input"
    /\ root' = _get_root(note)
    /\ pc' = "classify_done"
    /\ UNCHANGED note
    /\ UNCHANGED <<rewriteVars, chartVars, matchVars, songVars, deleteVars, creditsVars,
                   parserVars, scannerVars>>

ClassifyNext == TypeNote \/ CallGetRoot

SpecClassify == ClassifyInit /\ [][ClassifyNext]_vars

(***************************************************************************)
(* The temporal model builder: the lines of a chart are typed, then        *)
(* process_chart is called on them.                                        *)
(***************************************************************************)
ChartChars == {"1", "8", " ", ",", "/", "{", "}"}

ChartInit ==
    /\ pc = "chart_input"
    /\ RewriteIdle /\ ClassifyIdle /\ ChartIdle /\ MatchIdle /\ SongIdle
    /\ DeleteIdle /\ CreditsIdle /\ ParserIdle /\ ScannerIdle

\* a new, still empty, line is started
NewDataLine ==
    /\ pc = "chart_input"
    /\ Len(note_data) < MaxLines
    /\ note_data' = Append(note_data, <<>>)
    /\ UNCHANGED <<pc, temporal_roots, target_pattern, found>>
    /\ UNCHANGED <<rewriteVars, classifyVars, songVars, deleteVars, creditsVars,
                   parserVars, scannerVars>>

\* a character is added to the last line
TypeData ==
    /\ pc = "chart_input"
    /\ note_data # <<>>
    /\ Len(Concat(note_data)) < MaxDataLen
    /\ \E c \in ChartChars :
        note_data' = [note_data EXCEPT ![Len(note_data)] = Append(@, c)]
    /\ UNCHANGED <<pc, temporal_roots, target_pattern, found>>
    /\ UNCHANGED <<rewriteVars, classifyVars, songVars, deleteVars, creditsVars,
                   parserVars, scannerVars>>

CallProcessChart ==
    /\ pc = "chart_input"
    /\ temporal_roots' = process_chart(note_data)
    /\ pc' = "chart_done"
    /\ UNCHANGED <<note_data, target_pattern, found>>
    /\ UNCHANGED <<rewriteVars, classifyVars, songVars, deleteVars, creditsVars,
                   parserVars, scannerVars>>

ChartNext == NewDataLine \/ TypeData \/ CallProcessChart

SpecChart == ChartInit /\ [][ChartNext]_vars

(***************************************************************************)
(* The pattern matcher: TimeSlots are appended, then check_target_pattern  *)
(* is called with a target.                                                *)
(***************************************************************************)
\* the TimeSlots a chart may give: lists of roots
SlotChoices ==
    { <<>>, << <<"2">> >>, << <<"1">> >>, << <<"8">> >>, << <<"1">>, <<"8">> >> }

TargetRoots == {<<"1">>, <<"8">>}

\* the sequences over S of length at most n
SeqsUpTo(S, n) == UNION {[1..k -> S] : k \in 0..n}

MatchInit ==
    /\ pc = "match_input"
    /\ RewriteIdle /\ ClassifyIdle /\ ChartIdle /\ MatchIdle /\ SongIdle
    /\ DeleteIdle /\ CreditsIdle /\ ParserIdle /\ ScannerIdle

AddSlot ==
    /\ pc = "match_input"
    /\ Len(temporal_roots) < MaxSlots
    /\ \E slot \in SlotChoices : temporal_roots' = Append(temporal_roots, slot)
    /\ UNCHANGED <<pc, target_pattern, found>>
    /\ UNCHANGED <<rewriteVars, classifyVars, chartVars, songVars, deleteVars, creditsVars,
                   parserVars, scannerVars>>

CallCheckTargetPattern ==
    /\ pc = "match_input"
    /\ \E target \in SeqsUpTo(TargetRoots, MaxTarget) :
        /\ target_pattern' = target
        /\ found' = check_target_pattern(temporal_roots, target)
    /\ pc' = "match_done"
    /\ UNCHANGED temporal_roots
    /\ UNCHANGED <<rewriteVars, classifyVars, chartVars, songVars, deleteVars, creditsVars,
                   parserVars, scannerVars>>

MatchNext == AddSlot \/ CallCheckTargetPattern

SpecMatch == MatchInit /\ [][MatchNext]_vars

(***************************************************************************)
(* The multi-chart scan: charts are appended to a song, then               *)
(* check_song_structure is called with a predicate.                        *)
(***************************************************************************)
\* the note data a chart of the song may hold
NoteDataChoices ==
    { <<>>,
      <<<<",">>>>,
      <<<<"1", ",">>, <<"8", ",">>>>,
      <<<<"8", ",", "1", ",">>>> }

ChartNumbers == 1..MaxChartNumber

SongInit ==
    /\ pc = "song_input"
    /\ RewriteIdle /\ ClassifyIdle /\ ChartIdle /\ MatchIdle /\ SongIdle
    /\ DeleteIdle /\ CreditsIdle /\ ParserIdle /\ ScannerIdle

AddChart ==
    /\ pc = "song_input"
    /\ Len(song) < MaxCharts
    /\ \E n \in ChartNumbers, nd \in NoteDataChoices :
        song' = Append(song, [chart_number |-> n, note_data |-> nd])
    /\ UNCHANGED <<pc, condition_func, condition_calls, satisfies_number>>
    /\ UNCHANGED <<rewriteVars, classifyVars, chartVars, matchVars, deleteVars, creditsVars,
                   parserVars, scannerVars>>

CallCheckSongStructure ==
    /\ pc = "song_input"
    /\ \E c \in Conditions :
        /\ condition_func' = c
        /\ satisfies_number' = check_song_structure(song, c)
    /\ condition_calls' = ConditionCalls(song, 1)
    /\ pc' = "song_done"
    /\ UNCHANGED song
    /\ UNCHANGED <<rewriteVars, classifyVars, chartVars, matchVars, deleteVars, creditsVars,
                   parserVars, scannerVars>>

SongNext == AddChart \/ CallCheckSongStructure

SpecSong == SongInit /\ [][SongNext]_vars

(***************************************************************************)
(* process_line on lines made of whole header tokens and plain characters. *)
(***************************************************************************)
HeaderItems == {<<"{", "4", "}">>, <<"(", "1", "7", "3", ".", "5", ")">>,
                <<"1">>, <<"b">>, <<",">>, <<"/">>, <<"{">>}

HeaderLines == {Concat(f) : f \in SeqsUpTo(HeaderItems, MaxItems)}

HeadersInit ==
    /\ pc = "rewrite_input"
    /\ line \in HeaderLines
    /\ note_processor = "unset" /\ out_line = <<>> /\ calls = <<>>
    /\ ClassifyIdle /\ ChartIdle /\ MatchIdle /\ SongIdle
    /\ DeleteIdle /\ CreditsIdle /\ ParserIdle /\ ScannerIdle

SpecHeaders == HeadersInit /\ [][CallProcessLine]_vars

(***************************************************************************)
(* chart_delete and random_delete on a list of lines.                      *)
(***************************************************************************)
DeleteItems == {<<"1">>, <<"/">>, <<",">>, <<" ">>, <<"{", "4", "}">>}

\* alpha in tenths: 0, 0.5 and 1
DeleteAlphas == {0, 5, 10}

\* what random.random() may return, in tenths: 0 and 0.9
DrawValues == {0, 9}

\* the deterministic callables given to chart_delete
DeleteProcessors == {"keep", "add_hold"}

LinesOfItems(n) == {Concat(f) : f \in [1..n -> DeleteItems]}

\* the lists whose lines and items together number at most size
RECURSIVE ListsOfLines(_)
ListsOfLines(size) ==
    {<<>>} \cup
    (IF size = 0 THEN {}
     ELSE UNION {{<<l>> \o rest : l \in LinesOfItems(n),
                                  rest \in ListsOfLines(size - 1 - n)} : n \in 0..(size - 1)})

DeleteInit ==
    /\ pc = "delete_input"
    /\ chart_lines \in ListsOfLines(MaxDeleteSize)
    /\ alpha = 0
    /\ draws = <<>>
    /\ out_lines = <<>>
    /\ consumed = 0
    /\ RewriteIdle /\ ClassifyIdle /\ ChartIdle /\ MatchIdle /\ SongIdle
    /\ CreditsIdle /\ ParserIdle /\ ScannerIdle

\* the random source answers ds to the calls made; draws is what it returned
CallChartDelete ==
    /\ pc = "delete_input"
    /\ \E p \in DeleteProcessors \cup {"None"}, a \in DeleteAlphas :
       \E ds \in [1..chart_delete_draws(chart_lines, p) -> DrawValues] :
        /\ note_processor' = p
        /\ alpha' = a
        /\ draws' = ds
        /\ out_lines' = chart_delete(chart_lines, a, p, ds)
        /\ consumed' = chart_delete_draws(chart_lines, p)
    /\ pc' = "chart_delete_done"
    /\ UNCHANGED <<chart_lines, line, out_line, calls>>
    /\ UNCHANGED <<classifyVars, chartVars, matchVars, songVars, creditsVars,
                   parserVars, scannerVars>>

CallRandomDelete ==
    /\ pc = "delete_input"
    /\ \E a \in DeleteAlphas,
          ds \in [1..random_delete_draws(chart_lines) -> DrawValues] :
        /\ alpha' = a
        /\ draws' = ds
        /\ out_lines' = random_delete(chart_lines, a, ds)
        /\ consumed' = random_delete_draws(chart_lines)
    /\ pc' = "random_delete_done"
    /\ UNCHANGED chart_lines
    /\ UNCHANGED <<rewriteVars, classifyVars, chartVars, matchVars, songVars,
                   creditsVars,
                   parserVars, scannerVars>>

DeleteNext == CallChartDelete \/ CallRandomDelete

SpecDelete == DeleteInit /\ [][DeleteNext]_vars

(***************************************************************************)
(* The decorating process_beat of example/Credits.py, its call of          *)
(* generate_hs_string taken one draw at a time.                            *)
(***************************************************************************)
CreditsChars == {"1", "b", "/", " "}

\* what random.gauss may return, in thousandths
GaussValues == {399, 400, 625, 874, 1000, 1296, 1301}

CreditsInit ==
    /\ pc = "credits_input"
    /\ line \in SeqsUpTo(CreditsChars, MaxBeatLen)
    /\ note_processor = "unset" /\ out_line = <<>> /\ calls = <<>>
    /\ ClassifyIdle /\ ChartIdle /\ MatchIdle /\ SongIdle
    /\ DeleteIdle /\ CreditsIdle /\ ParserIdle /\ ScannerIdle

\* process_beat up to its return statement: a blank beat and a beat that
\* keeps no note return '', any other beat calls generate_hs_string
CreditsProcessBeat ==
    /\ pc = "credits_input"
    /\ \E p \in Processors :
        /\ note_processor' = p
        /\ IF Strip(line) = <<>>
           THEN /\ kept' = <<>>
                /\ calls' = <<>>
                /\ out_line' = <<>>
                /\ pc' = "credits_done"
           ELSE /\ kept' = credits_kept_notes(line, p)
                /\ calls' = StrippedNotes(line)
                /\ IF credits_decorates(credits_kept_notes(line, p))
                   THEN /\ pc' = "hs_loop"
                        /\ out_line' = <<>>
                   ELSE /\ pc' = "credits_done"
                        /\ out_line' = credits_return(credits_kept_notes(line, p), <<>>)
    /\ UNCHANGED <<line, hs_x>>
    /\ UNCHANGED <<classifyVars, chartVars, matchVars, songVars, deleteVars,
                   parserVars, scannerVars>>

\* one turn of the while True loop of generate_hs_string
HsDraw ==
    /\ pc = "hs_loop"
    /\ \E x \in GaussValues :
        /\ hs_x' = x
        /\ pc' = IF hs_accepts(x) THEN "hs_accepted" ELSE "hs_loop"
    /\ UNCHANGED <<line, note_processor, out_line, calls, kept>>
    /\ UNCHANGED <<classifyVars, chartVars, matchVars, songVars, deleteVars,
                   parserVars, scannerVars>>

\* generate_hs_string rounds x and returns, process_beat returns
CreditsReturn ==
    /\ pc = "hs_accepted"
    /\ out_line' = credits_return(kept, hs_result(hs_x))
    /\ pc' = "credits_done"
    /\ UNCHANGED <<line, note_processor, calls, kept, hs_x>>
    /\ UNCHANGED <<classifyVars, chartVars, matchVars, songVars, deleteVars,
                   parserVars, scannerVars>>

CreditsNext == CreditsProcessBeat \/ HsDraw \/ CreditsReturn

SpecCredits == CreditsInit /\ [][CreditsNext]_vars

\* the interpreter keeps running the function it is in
FairSpecCredits == SpecCredits /\ WF_vars(CreditsNext)

(***************************************************************************)
(* parser.py: _parse_metadata one line at a time, then _build_charts and   *)
(* get_chart_by_level.                                                     *)
(***************************************************************************)
\* the lines a file is made of: a blank line, the sentinel bare and padded
\* with a no-break space, a padded data line, block directives of two keys,
\* key/value directives with a padded value and with none, and a chart key
\* whose suffix is a superscript two
ParserLines == {
    <<" ">>,
    <<"E">>,
    <<"E", " ">>,
    <<" ", "1", ",">>,
    <<"&", "i", "n", "o", "t", "e", "_", "1", "=", "1", ",">>,
    <<"&", "i", "n", "o", "t", "e", "_", "x">>,
    <<"&", "l", "v", "_", "1", "=", " ", "3">>,
    <<"&", "d", "e", "s", "_", "0", "3">>,
    <<"&", "l", "v", "_", "²">>}

ParseState ==
    [metadata |-> metadata, current_inote_key |-> current_inote_key,
     inote_buffer |-> inote_buffer]

ParserInit ==
    /\ pc = "parse_loop"
    /\ RewriteIdle /\ ClassifyIdle /\ ChartIdle /\ MatchIdle /\ SongIdle
    /\ DeleteIdle /\ CreditsIdle /\ ParserIdle /\ ScannerIdle

\* the for loop of _parse_metadata takes the next line of the file
ParseLine ==
    /\ pc = "parse_loop"
    /\ Len(file_lines) < MaxFileLines
    /\ \E l \in ParserLines :
        /\ file_lines' = Append(file_lines, l)
        /\ metadata' = parse_line(ParseState, l).metadata
        /\ current_inote_key' = parse_line(ParseState, l).current_inote_key
        /\ inote_buffer' = parse_line(ParseState, l).inote_buffer
    /\ UNCHANGED <<pc, charts, chart_num, chart_found>>
    /\ UNCHANGED <<rewriteVars, classifyVars, chartVars, matchVars, songVars,
                   deleteVars, creditsVars, scannerVars>>

\* the file has no further line: _parse_metadata saves the open block
ParseEnd ==
    /\ pc = "parse_loop"
    /\ metadata' = IF current_inote_key # None
                   THEN _save_inote(metadata, current_inote_key, inote_buffer)
                   ELSE metadata
    /\ pc' = "parsed"
    /\ UNCHANGED <<file_lines, current_inote_key, inote_buffer, charts, chart_num,
                   chart_found>>
    /\ UNCHANGED <<rewriteVars, classifyVars, chartVars, matchVars, songVars,
                   deleteVars, creditsVars, scannerVars>>

\* _build_charts; a ValueError of _get_chart_numbers leaves Parser.__init__
\* and no parser is constructed
BuildCharts ==
    /\ pc = "parsed"
    /\ IF _get_chart_numbers_raises(metadata)
       THEN /\ pc' = "parser_raised"
            /\ UNCHANGED charts
       ELSE /\ charts' = _build_charts(metadata)
            /\ pc' = "built"
    /\ UNCHANGED <<file_lines, metadata, current_inote_key, inote_buffer, chart_num,
                   chart_found>>
    /\ UNCHANGED <<rewriteVars, classifyVars, chartVars, matchVars, songVars,
                   deleteVars, creditsVars, scannerVars>>

CallGetChartByLevel ==
    /\ pc = "built"
    /\ \E n \in 0..MaxChartNum :
        /\ chart_num' = n
        /\ chart_found' = get_chart_by_level(charts, n)
    /\ pc' = "chart_got"
    /\ UNCHANGED <<file_lines, metadata, current_inote_key, inote_buffer, charts>>
    /\ UNCHANGED <<rewriteVars, classifyVars, chartVars, matchVars, songVars,
                   deleteVars, creditsVars, scannerVars>>

ParserNext == ParseLine \/ ParseEnd \/ BuildCharts \/ CallGetChartByLevel

SpecParser == ParserInit /\ [][ParserNext]_vars

(***************************************************************************)
(* searcher.py: scan() calls on one scanner, one file at a time.           *)
(***************************************************************************)
ScannerInit ==
    /\ pc = "scan_idle"
    /\ RewriteIdle /\ ClassifyIdle /\ ChartIdle /\ MatchIdle /\ SongIdle
    /\ DeleteIdle /\ CreditsIdle /\ ParserIdle /\ ScannerIdle

\* scan() is called and _find_chart_files gives n files; with none it
\* returns False at once
StartScan ==
    /\ pc \in {"scan_idle", "scan_returned"}
    /\ \E n \in 0..(MaxProcessed - Len(history)) :
        /\ call_start' = Len(history)
        /\ IF n = 0
           THEN /\ scan_result' = FALSE
                /\ pc' = "scan_returned"
                /\ UNCHANGED <<todo, success_count>>
           ELSE /\ todo' = n
                /\ success_count' = 0
                /\ pc' = "scan_loop"
                /\ UNCHANGED scan_result
    /\ UNCHANGED <<history, match_results>>
    /\ UNCHANGED <<rewriteVars, classifyVars, chartVars, matchVars, songVars,
                   deleteVars, creditsVars, parserVars>>

\* one turn of the loop of scan(): _process_file on the next file
ProcessFile ==
    /\ pc = "scan_loop"
    /\ todo > 0
    /\ \E o \in FileOutcomes :
        LET done == _process_file(match_results, Len(history) + 1, o)
        IN  /\ history' = Append(history, o)
            /\ match_results' = done.match_results
            /\ success_count' =
                  IF done.result # <<>> /\ done.result[1].is_match
                  THEN success_count + 1 ELSE success_count
    /\ todo' = todo - 1
    /\ UNCHANGED <<pc, call_start, scan_result>>
    /\ UNCHANGED <<rewriteVars, classifyVars, chartVars, matchVars, songVars,
                   deleteVars, creditsVars, parserVars>>

\* the loop is over: scan() returns
ScanReturn ==
    /\ pc = "scan_loop"
    /\ todo = 0
    /\ scan_result' = (success_count > 0)
    /\ pc' = "scan_returned"
    /\ UNCHANGED <<history, call_start, todo, success_count, match_results>>
    /\ UNCHANGED <<rewriteVars, classifyVars, chartVars, matchVars, songVars,
                   deleteVars, creditsVars, parserVars>>

ScannerNext == StartScan \/ ProcessFile \/ ScanReturn

SpecScanner == ScannerInit /\ [][ScannerNext]_vars

(***************************************************************************)
(* The whole engine: any one component runs.                               *)
(***************************************************************************)
Init ==
    \/ RewriteInit \/ ClassifyInit \/ ChartInit \/ MatchInit \/ SongInit
    \/ HeadersInit \/ DeleteInit \/ CreditsInit \/ ParserInit \/ ScannerInit

Next ==
    \/ RewriteNext \/ ClassifyNext \/ ChartNext \/ MatchNext \/ SongNext
    \/ DeleteNext \/ CreditsNext \/ ParserNext \/ ScannerNext

Spec == Init /\ [][Next]_vars
(***************************************************************************)
(* Round trip of the rewrite engine (C1).                                  *)
(***************************************************************************)
\* s[j..k] is a header token: a braced integer or a parenthesized decimal
IsHeaderToken(s, j, k) ==
    /\ 1 <= j /\ j + 2 <= k /\ k <= Len(s)
    /\ \/ /\ s[j] = "{" /\ s[k] = "}"
          /\ \A m \in (j + 1)..(k - 1) : s[m] \in Digits
       \/ /\ s[j] = "(" /\ s[k] = ")"
          /\ s[j + 1] \in Digits
          /\ \A m \in (j + 1)..(k - 1) : (s[m] \in Digits \/ s[m] = ".")
          /\ Cardinality({m \in (j + 1)..(k - 1) : s[m] = "."}) <= 1

InHeader(s, i) == \E j \in 1..i, k \in i..Len(s) : IsHeaderToken(s, j, k)

\* index i is an end of the line, a bracket, a comma or a slash
TokenEdge(s, i) ==
    i = 0 \/ i = Len(s) + 1 \/ s[i] \in Brackets \cup {",", "/"}

\* the lines the engine leaves alone: every bracket belongs to a header token,
\* no note token has whitespace at either end, no slash has an empty side
NormalLine(s) ==
    /\ \A i \in 1..Len(s) : s[i] \in Brackets => InHeader(s, i)
    /\ \A i \in 1..Len(s) :
        s[i] \in Whitespace \cup {"/"} =>
            ~TokenEdge(s, i - 1) /\ ~TokenEdge(s, i + 1)

\* C1 as stated: process_line with the keep-all transform reproduces every
\* line character for character.
C1_RoundTripEveryLine ==
    (pc = "line_done" /\ note_processor = "keep") => out_line = line

\* C1 as amended: process_line with the keep-all transform reproduces the line
\* exactly when the line is in normal form (every brace and parenthesis belongs
\* to a well-formed header token, no note token has surrounding whitespace, no
\* slash has an empty side); every other line comes back changed.
C1_RoundTripNormalLines ==
    (pc = "line_done" /\ note_processor = "keep") =>
        (out_line = line <=> NormalLine(line))

\* a line with a header, a beat of two notes and an empty beat came back intact
C1_Witness ==
    /\ pc = "line_done"
    /\ note_processor = "keep"
    /\ \E i \in 1..Len(line) : line[i] = "}"
    /\ \E i \in 1..Len(line) : line[i] = ","
    /\ out_line = line
(***************************************************************************)
(* Per-beat reconstruction (C4) and deletion monotonicity (C5).            *)
(***************************************************************************)
\* the slash-separated tokens of a beat, trimmed
TrimmedTokens(b) ==
    LET ts == Split(b, "/") IN [i \in 1..Len(ts) |-> Strip(ts[i])]

IsKept(r) == r # None /\ r # <<>>

\* the results of the transform on the trimmed tokens that are neither None
\* nor empty, in order, joined by '/'
SurvivorsJoined(b, p) ==
    LET ts == TrimmedTokens(b)
        rs == [i \in 1..Len(ts) |-> ApplyProcessor(p, ts[i])]
    IN  Join(SelectSeq(rs, IsKept), "/")

CommaCount(s) == Cardinality({i \in 1..Len(s) : s[i] = ","})

\* C4 as stated: for every beat, process_beat calls the transform once per
\* slash-separated token (trimmed, in order) and returns the kept results
\* joined by '/'; process_line keeps the number of commas.
C4_EveryBeatCallsPerToken ==
    /\ pc = "beat_done" =>
        /\ calls = TrimmedTokens(line)
        /\ out_line = SurvivorsJoined(line, note_processor)
    /\ pc = "line_done" => CommaCount(out_line) = CommaCount(line)

\* C4 as amended: for every beat that is not blank, process_beat calls the
\* transform once per slash-separated token (trimmed, in order) and returns the
\* kept results joined by '/' ('' when none survive); for a blank beat (empty or
\* whitespace only) it returns '' without calling the transform; process_line
\* keeps the number of commas.
C4_NonBlankBeatCallsPerToken ==
    /\ (pc = "beat_done" /\ Strip(line) # <<>>) =>
        /\ calls = TrimmedTokens(line)
        /\ out_line = SurvivorsJoined(line, note_processor)
    /\ (pc = "beat_done" /\ Strip(line) = <<>>) =>
        /\ calls = <<>>
        /\ out_line = <<>>
    /\ pc = "line_done" => CommaCount(out_line) = CommaCount(line)

\* the beat 'b/ 1' lost its first note and kept its second, trimmed
C4_Witness ==
    /\ pc = "beat_done"
    /\ note_processor = "delete_break"
    /\ line = <<"b", "/", " ", "1">>
    /\ calls = << <<"b">>, <<"1">> >>
    /\ out_line = <<"1">>

IsNote(t) == t # <<>>

\* the notes of a beat: its non-empty trimmed tokens
NotesOf(b) == SelectSeq(TrimmedTokens(b), IsNote)

\* C5: for a transform that returns the note unchanged or None, the
\* reconstructed beat of a beat with N notes (non-empty slash-separated tokens)
\* has at most N notes, and fewer than N exactly when the transform returned
\* None for one of them.
C5_DeletionMonotone ==
    (pc = "beat_done" /\ note_processor \in DeleteOnly) =>
        LET before == NotesOf(line)
            after == NotesOf(out_line)
            deleted == \E i \in 1..Len(before) :
                           ApplyProcessor(note_processor, before[i]) = None
        IN  /\ Len(after) <= Len(before)
            /\ Len(after) < Len(before) <=> deleted

\* the beat '1/b' of two notes came back as the one note '1'
C5_Witness ==
    /\ pc = "beat_done"
    /\ note_processor = "delete_break"
    /\ line = <<"1", "/", "b">>
    /\ Len(NotesOf(line)) = 2
    /\ Len(NotesOf(out_line)) = 1
(***************************************************************************)
(* The pattern matcher (C2) and the multi-chart scan (C3).                 *)
(***************************************************************************)
\* C2: check_target_pattern returns true exactly when the sequence has at
\* least K = len(target_pattern) slots and some offset o puts every target[i]
\* in slot o + i.
C2_MatchIffSomeWindow ==
    pc = "match_done" =>
        LET K == Len(target_pattern)
            N == Len(temporal_roots)
        IN  found <=>
                /\ N >= K
                /\ \E o \in 0..(N - K) : \A i \in 0..(K - 1) :
                    \E n \in DOMAIN temporal_roots[o + i + 1] :
                        temporal_roots[o + i + 1][n] = target_pattern[i + 1]

\* slots [{2},{1},{8},{1},{8}] matched the target [1,8,1,8] at offset 1
C2_Witness ==
    /\ pc = "match_done"
    /\ temporal_roots = << << <<"2">> >>, << <<"1">> >>, << <<"8">> >>,
                           << <<"1">> >>, << <<"8">> >> >>
    /\ target_pattern = << <<"1">>, <<"8">>, <<"1">>, <<"8">> >>
    /\ found

HasNoteData(chart) == chart.note_data # <<>>

\* C3: check_song_structure returns the chart_number of every chart that has
\* note data and whose temporal roots satisfy the predicate, in collection
\* order and once per chart; the predicate is applied to the charts that have
\* note data and to no other.
C3_ScanReturnsQualifyingCharts ==
    pc = "song_done" =>
        LET qualifies(chart) ==
                /\ HasNoteData(chart)
                /\ ApplyCondition(condition_func, process_chart(chart.note_data))
            hits == SelectSeq(song, qualifies)
            asked == SelectSeq(song, HasNoteData)
        IN  /\ satisfies_number = [i \in 1..Len(hits) |-> hits[i].chart_number]
            /\ condition_calls =
                   [i \in 1..Len(asked) |-> process_chart(asked[i].note_data)]

\* of three charts (one without note data, one without the pattern, one with
\* it) only the third was returned
C3_Witness ==
    /\ pc = "song_done"
    /\ condition_func = "pattern_1_8"
    /\ Len(song) = 3
    /\ song[1].note_data = <<>>
    /\ song[2].note_data = << <<"8", ",", "1", ",">> >>
    /\ song[3] = [chart_number |-> 3,
                  note_data |-> << <<"1", ",">>, <<"8", ",">> >>]
    /\ satisfies_number = <<3>>

(***************************************************************************)
(* The classifier (C6, C7).                                                *)
(***************************************************************************)
\* C6: _get_root never raises; it returns None for the empty string, the first
\* two characters when the first is one of A..E and a second exists, and the
\* first character otherwise; what it returns is never empty.
C6_ClassifierPrefixRule ==
    pc = "classify_done" =>
        /\ root # IndexError
        /\ note = <<>> => root = None
        /\ note # <<>> =>
            /\ root # None
            /\ Len(root) = IF note[1] \in {"A", "B", "C", "D", "E"} /\ Len(note) >= 2
                           THEN 2 ELSE 1
            /\ root = SubSeq(note, 1, Len(root))

\* the lone letter 'E' was classified as 'E'
C6_Witness ==
    /\ pc = "classify_done"
    /\ note = <<"E">>
    /\ root = <<"E">>

\* C7: no TimeSlot that process_chart returns holds a root that is a
\* whitespace character.
C7_NoWhitespaceRoot ==
    pc = "chart_done" =>
        \A i \in 1..Len(temporal_roots) : \A n \in 1..Len(temporal_roots[i]) :
            temporal_roots[i][n][1] \notin Whitespace

(***************************************************************************)
(* The temporal model builder (C8, C9, C10).                               *)
(***************************************************************************)
\* a line of commas, slashes and empty brace or parenthesis pairs
OnlyDelimiters(l) ==
    \A i \in 1..Len(l) :
        \/ l[i] \in {",", "/"}
        \/ l[i] = "{" /\ i < Len(l) /\ l[i + 1] = "}"
        \/ l[i] = "}" /\ i > 1 /\ l[i - 1] = "{"
        \/ l[i] = "(" /\ i < Len(l) /\ l[i + 1] = ")"
        \/ l[i] = ")" /\ i > 1 /\ l[i - 1] = "("

\* C8: lines made of delimiter characters only give no TimeSlot at all.
C8_DelimiterLinesGiveNoSlot ==
    (pc = "chart_done" /\ \A l \in 1..Len(note_data) : OnlyDelimiters(note_data[l]))
        => temporal_roots = <<>>

\* C9: every TimeSlot that process_chart returns holds at least one root.
C9_NoEmptySlot ==
    pc = "chart_done" =>
        \A i \in 1..Len(temporal_roots) : temporal_roots[i] # <<>>

\* the first characters of the comma-delimited blocks of s that are not blank
BlockStarts(s) ==
    {i \in 1..Len(s) :
        /\ s[i] \notin Whitespace \cup {","}
        /\ \A j \in 1..(i - 1) :
            (\A k \in j..(i - 1) : s[k] # ",") => s[j] \in Whitespace}

\* the last character of the block that starts at i, trimmed
BlockEnd(s, i) ==
    CHOOSE k \in i..Len(s) :
        /\ \A m \in i..k : s[m] # ","
        /\ s[k] \notin Whitespace
        /\ \A m \in (k + 1)..Len(s) :
            (\A q \in i..m : s[q] # ",") => s[m] \in Whitespace

\* the n-th smallest element of a set of numbers
Nth(S, n) == CHOOSE i \in S : Cardinality({j \in S : j < i}) = n - 1

\* C10: process_chart depends on the lines only through their concatenation,
\* and returns one TimeSlot per comma-delimited block of the concatenation
\* that is not blank, in source order: the roots of that block, trimmed.
C10_OneSlotPerNonBlankBlock ==
    pc = "chart_done" =>
        LET s == Concat(note_data)
            starts == BlockStarts(s)
        IN  /\ temporal_roots = process_chart(<<s>>)
            /\ Len(temporal_roots) = Cardinality(starts)
            /\ \A n \in 1..Len(temporal_roots) :
                temporal_roots[n] =
                    extract_roots(SubSeq(s, Nth(starts, n), BlockEnd(s, Nth(starts, n))))

\* the lines '1' and '8,1' gave two TimeSlots: the block '18' runs over the
\* line break
C10_Witness ==
    /\ pc = "chart_done"
    /\ note_data = << <<"1">>, <<"8", ",", "1">> >>
    /\ temporal_roots = << << <<"1">> >>, << <<"1">> >> >>
(***************************************************************************)
(* TimeSlots as sets (C11), stray brackets (C13), the two paths (C19).     *)
(***************************************************************************)
\* C11: a root occurs at most once in a TimeSlot, however many notes of the
\* beat have it.
C11_SlotHasNoDuplicateRoot ==
    pc = "chart_done" =>
        \A i \in 1..Len(temporal_roots) :
            \A m, n \in 1..Len(temporal_roots[i]) :
                temporal_roots[i][m] = temporal_roots[i][n] => m = n

CharCount(s, c) == Cardinality({i \in 1..Len(s) : s[i] = c})

\* C13: with the keep-all transform process_line emits every brace and
\* parenthesis of the line, those that belong to no header token too.
C13_StrayBracketsKept ==
    (pc = "line_done" /\ note_processor = "keep") =>
        \A c \in Brackets : CharCount(out_line, c) = CharCount(line, c)

\* the beats of process_line's decomposition: the comma-separated parts of
\* the plain run of every (head, notes_part) pair, in order
DecompositionBeats(l) ==
    LET ms == FindAll(l, 1)
    IN  Concat([i \in 1..Len(ms) |-> Split(ms[i].notes_part, ",")])

HasNote(beat) == \E i \in 1..Len(TrimmedTokens(beat)) : TrimmedTokens(beat)[i] # <<>>

\* the roots of the notes of a beat
BeatRoots(beat) ==
    LET ns == NotesOf(beat)
    IN  [i \in 1..Len(ns) |->
            IF ns[i][1] \in {"A", "B", "C", "D", "E"} /\ Len(ns[i]) >= 2
            THEN <<ns[i][1], ns[i][2]>> ELSE <<ns[i][1]>>]

\* C19: for one note-data line, process_chart returns one TimeSlot per beat of
\* process_line's decomposition that has a non-empty note token, and the i-th
\* TimeSlot holds the roots of the i-th such beat.
C19_PathsAgreeOnBeats ==
    (pc = "chart_done" /\ Len(note_data) = 1) =>
        LET beats == SelectSeq(DecompositionBeats(note_data[1]), HasNote)
        IN  /\ Len(temporal_roots) = Len(beats)
            /\ \A i \in 1..Len(beats) :
                \A r \in {"1", "8"} :
                    (\E n \in 1..Len(temporal_roots[i]) : temporal_roots[i][n] = <<r>>)
                        <=> (\E n \in 1..Len(BeatRoots(beats[i])) : BeatRoots(beats[i])[n] = <<r>>)

(***************************************************************************)
(* Header preservation (C12).                                              *)
(***************************************************************************)
HeaderStarts(s) == {j \in 1..Len(s) : \E k \in j..Len(s) : IsHeaderToken(s, j, k)}

\* the header tokens of s in order, each with the number of commas before it
Headers(s) ==
    LET S == HeaderStarts(s)
        start(n) == CHOOSE j \in S : Cardinality({x \in S : x < j}) = n - 1
        stop(j) == CHOOSE k \in j..Len(s) : IsHeaderToken(s, j, k)
    IN  [n \in 1..Cardinality(S) |->
            [text |-> SubSeq(s, start(n), stop(start(n))),
             beat |-> CommaCount(SubSeq(s, 1, start(n) - 1))]]

\* number of times c stands in s outside every header token
PlainCount(s, c) == Cardinality({i \in 1..Len(s) : s[i] = c /\ ~InHeader(s, i)})

\* the characters that stand in s
CharsOf(s) == {s[i] : i \in 1..Len(s)}

\* C12: whatever the transform, process_line emits the header tokens of the
\* line verbatim, in their order and each in its beat; the transform is given
\* no character of a header; a line made of header tokens only comes back as
\* it is.
C12_HeadersPreserved ==
    pc = "line_done" =>
        /\ Headers(out_line) = Headers(line)
        /\ \A c \in CharsOf(line) \cup CharsOf(Concat(calls)) :
            (c \in Brackets \/ c \in Digits \/ c = ".") =>
                CharCount(Concat(calls), c) <= PlainCount(line, c)
        /\ (\A i \in 1..Len(line) : InHeader(line, i)) => out_line = line

\* two different headers around a deleted note came out in order and in their
\* beats
C12_Witness ==
    /\ pc = "line_done"
    /\ note_processor = "delete_all"
    /\ line = <<"(", "1", "7", "3", ".", "5", ")", "1", ",", "{", "4", "}">>
    /\ out_line = <<"(", "1", "7", "3", ".", "5", ")", ",", "{", "4", "}">>

(***************************************************************************)
(* chart_delete line by line (C14), deterministic callables (C15), the     *)
(* boundary probabilities (C17), the two deletion copies (C18).            *)
(***************************************************************************)
\* what the random source returned while chart_delete worked on line i
DrawsOfLine(i) ==
    LET before == chart_delete_calls(SubSeq(chart_lines, 1, i - 1))
    IN  SubSeq(draws, before + 1, before + chart_delete_calls(<<chart_lines[i]>>))

C14_EachLineAlone ==
    pc = "chart_delete_done" =>
        /\ Len(out_lines) = Len(chart_lines)
        /\ \A i \in 1..Len(chart_lines) :
            IF note_processor = "None"
            THEN <<out_lines[i]>>
                    = chart_delete(<<chart_lines[i]>>, alpha, "None", DrawsOfLine(i))
            ELSE out_lines[i] = process_line(Strip(chart_lines[i]), note_processor)

\* C14: chart_delete returns as many elements as it was given lines, the i-th
\* being process_line of the stripped i-th line alone (with the random
\* processor: of that line and the draws made for it), and it leaves the list
\* it was given as it was.
C14_LineByLine == [](C14_EachLineAlone) /\ [][chart_lines' = chart_lines]_vars

\* two equal lines were rewritten one by one by the random processor, each
\* with its own draw
C14_Witness ==
    /\ pc = "chart_delete_done"
    /\ note_processor = "None"
    /\ alpha = 5
    /\ chart_lines = <<<<"1">>, <<"1">>>>
    /\ draws = <<0, 9>>
    /\ out_lines = <<<<>>, <<"1">>>>

\* C15: with a deterministic callable the result of chart_delete is the same
\* for every alpha and every sequence of random values, and no random value
\* is drawn.
C15_AlphaAndDrawsIgnored ==
    (pc = "chart_delete_done" /\ note_processor # "None") =>
        /\ consumed = 0
        /\ \A a \in DeleteAlphas :
            \A ds \in [1..chart_delete_calls(chart_lines) -> DrawValues] :
                chart_delete(chart_lines, a, note_processor, ds) = out_lines

\* a callable was given together with alpha = 1 and every note came back
C15_Witness ==
    /\ pc = "chart_delete_done"
    /\ note_processor = "add_hold"
    /\ alpha = 10
    /\ chart_lines = <<<<"1", "/", "1">>>>
    /\ out_lines = <<<<"1", "h", "/", "1", "h">>>>

\* out has the header tokens and the commas of l and nothing else
OnlyHeadersAndCommas(out, l) ==
    /\ \A m \in 1..Len(out) : out[m] = "," \/ InHeader(out, m)
    /\ Headers(out) = Headers(l)
    /\ CommaCount(out) = CommaCount(l)

\* C17: every draw being in [0, 1), chart_delete without a callable and
\* random_delete both return what the keep-all transform returns when alpha
\* is 0, and only the header tokens and commas of the lines when alpha is 1.
C17_BoundaryAlphas ==
    /\ ((pc = "chart_delete_done" /\ note_processor = "None" /\ alpha = 0)
        \/ (pc = "random_delete_done" /\ alpha = 0)) =>
        out_lines = [i \in 1..Len(chart_lines) |->
                        process_line(Strip(chart_lines[i]), "keep")]
    /\ ((pc = "chart_delete_done" /\ note_processor = "None" /\ alpha = 10)
        \/ (pc = "random_delete_done" /\ alpha = 10)) =>
        /\ Len(out_lines) = Len(chart_lines)
        /\ \A i \in 1..Len(chart_lines) :
            OnlyHeadersAndCommas(out_lines[i], Strip(chart_lines[i]))

\* C18: random_delete returns what chart_delete with the random processor
\* returns for the same lines, alpha and random values, and draws as often.
C18_RandomDeleteIsChartDelete ==
    pc = "random_delete_done" =>
        /\ consumed = chart_delete_draws(chart_lines, "None")
        /\ out_lines = chart_delete(chart_lines, alpha, "None", draws)

(***************************************************************************)
(* The decoration of a beat (C16) and termination (C20).                   *)
(***************************************************************************)
\* s is one decoration '<HS*x>', x a decimal numeral, followed by rest
DecoratedWith(s, rest) ==
    \E k \in 6..Len(s) :
        /\ SubSeq(s, 1, 4) = <<"<", "H", "S", "*">>
        /\ \A m \in 5..(k - 1) : (s[m] \in Digits \/ s[m] = ".")
        /\ s[k] = ">"
        /\ SubSeq(s, k + 1, Len(s)) = rest
        /\ CharCount(s, "<") = 1

\* C16: the decorating process_beat returns one decoration '<HS*x>' followed
\* by the surviving notes joined by '/' when at least one note survives, and
\* '' with no decoration for a blank beat or a beat whose notes were all
\* deleted.
C16_DecorationIffNoteSurvives ==
    pc = "credits_done" =>
        LET survivors == SurvivorsJoined(line, note_processor)
        IN  IF Strip(line) # <<>> /\ survivors # <<>>
            THEN DecoratedWith(out_line, survivors)
            ELSE out_line = <<>>

\* of the beat 'b/1' the second note survived and follows the decoration
C16_Witness ==
    /\ pc = "credits_done"
    /\ note_processor = "delete_break"
    /\ line = <<"b", "/", "1">>
    /\ out_line = <<"<", "H", "S", "*", "0", ".", "8", "7", ">", "1">>

\* C20: every operation ends; for the decorating rewrite, the rejection loop
\* of generate_hs_string ends whatever values the random source returns.
C20_RejectionLoopEnds == (pc = "hs_loop") ~> (pc = "credits_done")

(***************************************************************************)
(* The keep-all rewrite is idempotent (C21).                               *)
(***************************************************************************)
\* C21: what process_line with the keep-all transform returns is a line it
\* returns unchanged: a second pass changes nothing, and the line is in normal
\* form.
C21_KeepAllIdempotent ==
    (pc = "line_done" /\ note_processor = "keep") =>
        /\ process_line(out_line, "keep") = out_line
        /\ NormalLine(out_line)

\* a line with padding, an empty note token and a stray bracket was changed by
\* the first pass and its result is left alone by the second
C21_Witness ==
    /\ pc = "line_done"
    /\ note_processor = "keep"
    /\ line = <<" ", "1", "/", "{">>
    /\ out_line = <<"1">>
    /\ process_line(out_line, "keep") = out_line

(***************************************************************************)
(* C22: the blocks _parse_metadata stores.  Lines are read as the parser   *)
(* reads them, stripped of surrounding whitespace.                         *)
(***************************************************************************)
StrippedLines == [i \in 1..Len(file_lines) |-> Strip(file_lines[i])]

IsDirective(l) == StartsWith(l, <<"&">>)

DirectiveKey(l) == Partition(Tail_(l, 2), "=")[1]

DirectiveValue(l) == Partition(Tail_(l, 2), "=")[3]

IsInoteKey(k) == StartsWith(k, <<"i", "n", "o", "t", "e", "_">>)

\* the positions of the directive lines with this key
DirectivesOf(k) ==
    {i \in 1..Len(file_lines) :
        IsDirective(StrippedLines[i]) /\ DirectiveKey(StrippedLines[i]) = k}

DirectiveKeys ==
    {DirectiveKey(StrippedLines[i]) :
        i \in {j \in 1..Len(file_lines) : IsDirective(StrippedLines[j])}}

\* a line that ends a block: exactly E, or a directive
EndsBlock(l) == l = <<"E">> \/ IsDirective(l)

\* the position of the first line after i that ends a block, or one past the
\* last line read
InoteBlockEnd(i) ==
    CHOOSE j \in (i + 1)..(Len(file_lines) + 1) :
        /\ j = Len(file_lines) + 1 \/ EndsBlock(StrippedLines[j])
        /\ \A m \in (i + 1)..(j - 1) : ~EndsBlock(StrippedLines[m])

\* the stripped non-blank lines strictly between directive i and its end
BlockLines(i) ==
    SelectSeq(SubSeq(StrippedLines, i + 1, InoteBlockEnd(i) - 1), LAMBDA l : l # <<>>)

\* the block of directive i is over: a line ended it, or the file did
BlockClosed(i) == pc # "parse_loop" \/ InoteBlockEnd(i) <= Len(file_lines)

ClosedDirectivesOf(k) == {i \in DirectivesOf(k) : BlockClosed(i)}

Latest(S) == CHOOSE i \in S : \A j \in S : j <= i

\* the inote directives whose block is still being read
OpenBlocks ==
    {i \in 1..Len(file_lines) :
        /\ IsDirective(StrippedLines[i])
        /\ IsInoteKey(DirectiveKey(StrippedLines[i]))
        /\ ~BlockClosed(i)}

\* C22: after _parse_metadata, and after each line on the way, the list stored
\* for an inote key is the stripped non-blank lines after the most recent
\* finished directive of that key up to the first E or & line (or the end of
\* the file); the text after = on the directive line is not in it; nothing
\* else is stored but the stripped values of the other directives, so lines
\* after an E are stored nowhere; at most one block is open, and it is the one
\* current_inote_key and inote_buffer describe; a repeated directive replaces
\* the earlier block.
C22_InoteBlocks ==
    (pc \in {"parse_loop", "parsed", "built", "chart_got"}) =>
        /\ DOMAIN metadata =
              {k \in DirectiveKeys : IsInoteKey(k) => ClosedDirectivesOf(k) # {}}
        /\ \A k \in DOMAIN metadata :
              IF IsInoteKey(k)
              THEN metadata[k] = ListValue(BlockLines(Latest(ClosedDirectivesOf(k))))
              ELSE metadata[k] =
                      StrValue(Strip(DirectiveValue(StrippedLines[Latest(DirectivesOf(k))])))
        /\ Cardinality(OpenBlocks) <= 1
        /\ (pc = "parse_loop") => ((current_inote_key = None) <=> (OpenBlocks = {}))
        /\ \A i \in OpenBlocks :
              /\ current_inote_key = DirectiveKey(StrippedLines[i])
              /\ inote_buffer = BlockLines(i)
        /\ (pc # "parse_loop") => (OpenBlocks = {})

\* a block with text on its directive line, a padded line, a sentinel padded
\* with a no-break space and a line after it
C22_Witness ==
    /\ pc = "parse_loop"
    /\ file_lines = <<<<"&", "i", "n", "o", "t", "e", "_", "1", "=", "1", ",">>, <<" ", "1", ",">>, <<"E", " ">>, <<" ", "1", ",">>>>
    /\ metadata = (<<"i", "n", "o", "t", "e", "_", "1">> :> ListValue(<<<<"1", ",">>>>))
    /\ current_inote_key = None

(***************************************************************************)
(* C23: the charts built from the metadata.                                *)
(***************************************************************************)
ChartPrefixes == {<<"l", "v", "_">>, <<"d", "e", "s", "_">>, <<"i", "n", "o", "t", "e", "_">>}

\* k is the prefix lv_, des_ or inote_ followed by digits only
IsChartKey(k, prefix) ==
    StartsWith(k, prefix) /\ IsDigit(Tail_(k, Len(prefix) + 1))

\* the integers some chart key of the metadata names
ChartKeyNumbers ==
    {ParseInt(Tail_(kp[1], Len(kp[2]) + 1)) :
        kp \in {x \in (DOMAIN metadata) \X ChartPrefixes : IsChartKey(x[1], x[2])}}

ChartsWithNumber(n) == {i \in 1..Len(charts) : charts[i].chart_number = n}

\* C23: get_charts() has exactly one chart for each integer named by a key
\* lv_N, des_N or inote_N with an all-digit suffix and no other chart, in
\* strictly ascending chart_number order; a chart whose inote_N key is absent
\* has the empty list as note_data; get_chart_by_level(n) gives the chart
\* numbered n, or None when there is none.
C23_ChartsOfKeys ==
    (pc \in {"built", "chart_got"}) =>
        /\ \A n \in ChartKeyNumbers : Cardinality(ChartsWithNumber(n)) = 1
        /\ \A i \in 1..Len(charts) : charts[i].chart_number \in ChartKeyNumbers
        /\ \A i \in 1..(Len(charts) - 1) :
              charts[i].chart_number < charts[i + 1].chart_number
        /\ \A i \in 1..Len(charts) :
              (<<"i", "n", "o", "t", "e", "_">> \o IntStr(charts[i].chart_number)) \notin DOMAIN metadata
                  => charts[i].note_data = ListValue(<<>>)
        /\ (pc = "chart_got") =>
              IF ChartsWithNumber(chart_num) = {}
              THEN chart_found = None
              ELSE \E i \in ChartsWithNumber(chart_num) : chart_found = charts[i]

\* des_03 comes before inote_1 in the file and inote_x names no chart: chart 1
\* with its block, then chart 3 with no block; chart 3 is asked for
C23_Witness ==
    /\ pc = "chart_got"
    /\ file_lines = <<<<"&", "i", "n", "o", "t", "e", "_", "x">>, <<"&", "d", "e", "s", "_", "0", "3">>, <<"&", "i", "n", "o", "t", "e", "_", "1", "=", "1", ",">>, <<" ", "1", ",">>>>
    /\ Len(charts) = 2
    /\ charts[1].chart_number = 1 /\ charts[1].note_data = ListValue(<<<<"1", ",">>>>)
    /\ charts[2].chart_number = 3 /\ charts[2].note_data = ListValue(<<>>)
    /\ chart_num = 3 /\ chart_found = charts[2]

(***************************************************************************)
(* C24: what scan() returns and what it records.                           *)
(***************************************************************************)
\* the files processed so far that raised nothing, in order
ProcessedCleanly == Sorted({i \in 1..Len(history) : ~Raises(history[i])})

\* the positions of the results that are matches, in order
MatchPositions == Sorted({i \in 1..Len(match_results) : match_results[i].is_match})

\* C24: scan() returns True exactly when some file of that call got a value
\* other than None from the matcher, an empty dict included; match_results
\* holds one result for each file processed without exception, in order, with
\* is_match true exactly when the matcher's value is not None, and nothing for
\* a file that raised; get_matched_results() is the subsequence of the
\* results whose is_match is true.
C24_ScanAndResults ==
    (pc \in {"scan_idle", "scan_loop", "scan_returned"}) =>
        /\ Len(match_results) = Len(ProcessedCleanly)
        /\ \A k \in 1..Len(match_results) :
              /\ match_results[k].file_path = ProcessedCleanly[k]
              /\ match_results[k].is_match <=> (history[ProcessedCleanly[k]] # "None")
        /\ (pc = "scan_returned") =>
              (scan_result <=>
                  \E i \in (call_start + 1)..Len(history) :
                      history[i] \in {"empty_dict", "dict"})
        /\ Len(get_matched_results(match_results)) = Len(MatchPositions)
        /\ \A k \in 1..Len(MatchPositions) :
              get_matched_results(match_results)[k] = match_results[MatchPositions[k]]

\* a second scan whose only clean file got an empty dict returns True; the
\* first scan's unmatched file is still in match_results
C24_Witness ==
    /\ pc = "scan_returned"
    /\ history = <<"None", "matcher_raises", "empty_dict">>
    /\ call_start = 1
    /\ scan_result
    /\ Len(match_results) = 2
    /\ ~match_results[1].is_match /\ match_results[1].file_path = 1
    /\ match_results[2].is_match /\ match_results[2].file_path = 3
    /\ get_matched_results(match_results) = <<match_results[2]>>

====
